---- MODULE Spec2Model ----
(***************************************************************************)
(* Model of the cluster configuration core (lib/config/__init__.py):       *)
(* the ConfigWriter store, its session manager (ConfigManager,             *)
(* _OpenConfig, _CloseConfig, _WriteConfig, _UpgradeConfig), the accessors *)
(* that run inside sessions, and the two backing stores it talks to: the   *)
(* lock daemon (WConfd, "LockD") when online and the configuration file    *)
(* when offline.                                                           *)
(*                                                                         *)
(* Python objects are records, dicts are functions whose DOMAIN is the set *)
(* of keys, lists are sequences, None for _config_data is the empty        *)
(* sequence (a loaded graph g is <<g>>).  An operation of the store is an  *)
(* operator on a "machine" record m that threads the state it may touch:   *)
(*   m.s       the ConfigWriter instance of the calling execution context  *)
(*   m.lockd   the lock daemon (authoritative graph and config lock)       *)
(*   m.cfgfile the configuration file (content and file identity)          *)
(*   m.tgt     the entity object the caller holds (argument of Update)     *)
(*   m.calls   the external calls issued so far by the running operation   *)
(*   m.exc     the exception being raised ("" when none)                   *)
(*   m.skip    an __enter__ failed: the with-body and __exit__ do not run  *)
(*   m.blocked LockConfig was not granted: the poll loop is still waiting  *)
(***************************************************************************)
EXTENDS Integers, Sequences, FiniteSets, TLC

\* ---------------------------------------------------------------- bounds

\* serial numbers (entity, cluster, ConfigData) are capped in the guards
MaxSerial == 3
\* depth of nested sessions a caller opens
MaxDepth == 2
\* how far below zero _lock_count may drift before callers stop opening
MaxDrift == 1
\* disk operations stop once the cluster serial number reached this value
MaxDiskSerial == 6
\* the largest disk index a caller passes
MaxIdx == 3
\* node and group operations stop once the cluster serial number reached this
MaxGroupSerial == 4
\* the longest modification list passed to AssignGroupNodes
MaxMods == 2
\* constants.LAST_DRBD_PORT, scaled down: the first port number past the range
LastDrbdPort == 4
\* the largest cluster.candidate_pool_size tried
MaxPoolSize == 3
\* the longest exception list passed to MaintainCandidatePool
MaxExceptions == 1

\* ------------------------------------------------------------ identifiers

Ctx == {"job1", "job2"}
InstIds == {"i1", "i2"}
DiskIds == {"d1", "d2", "d3"}
NodeIds == {"n1"}
GroupIds == {"g1", "g2"}
\* the UUID _UpgradeConfig generates for the default node group
DefaultGroupId == "g0"
AdminStates == {"up", "down"}

EmptyMap == [x \in {} |-> x]
Put(f, k, v) == [x \in (DOMAIN f) \cup {k} |-> IF x = k THEN v ELSE f[x]]
Del(f, k) == [x \in (DOMAIN f) \ {k} |-> f[x]]

\* "disk/%s" % idx
IvName(idx) == <<"disk", idx>>

\* Python list operations
ListInsert(l, idx, x) == SubSeq(l, 1, idx) \o <<x>> \o SubSeq(l, idx + 1, Len(l))
ListElems(l) == {l[k] : k \in 1..Len(l)}
\* list.index(x) (0-based) of an element known to be in the list
ListIndex(l, x) == (CHOOSE k \in 1..Len(l) : l[k] = x /\ \A j \in 1..(k - 1) : l[j] # x) - 1
\* list.remove(x): drops the first occurrence
ListRemove(l, x) == SubSeq(l, 1, ListIndex(l, x)) \o SubSeq(l, ListIndex(l, x) + 2, Len(l))

\* ------------------------------------------------- serialization (objects)

\* constants.CONFIG_VERSION, and the version an older release wrote
CONFIG_VERSION == "2.16"

Versions == {CONFIG_VERSION, "2.15"}

\* _ValidateConfig(data): the exception it raises, if any
ValidateConfig(data) ==
  IF data.version # CONFIG_VERSION THEN "ConfigVersionMismatch" ELSE ""

\* ConfigData.ToDict(): the members list of a node group is not serialized
ToDict(g) ==
  [g EXCEPT !.nodegroups =
     [u \in DOMAIN g.nodegroups |->
        [f \in DOMAIN g.nodegroups[u] \ {"members"} |-> g.nodegroups[u][f]]]]

\* ConfigData.FromDict(): node groups come back with an empty members list
FromDict(d) ==
  [d EXCEPT !.nodegroups =
     [u \in DOMAIN d.nodegroups |->
        [f \in DOMAIN d.nodegroups[u] \cup {"members"} |->
           IF f = "members" THEN <<>> ELSE d.nodegroups[u][f]]]]

\* ------------------------------------------------------- machine plumbing

ConfigData(m) == m.s.config_data[1]
SetConfigData(m, g) == [m EXCEPT !.s.config_data = <<g>>]
\* a freshly deserialized graph shares no object with what the caller holds
InstallConfigData(m, g) ==
  [m EXCEPT !.s.config_data = <<g>>, !.rebound = TRUE,
            !.tgt = IF m.tgt = <<>> THEN <<>> ELSE <<[m.tgt[1] EXCEPT !.aliased = FALSE]>>]
Raise(m, e) == [m EXCEPT !.exc = e]
Call(m, name) == [m EXCEPT !.calls = Append(m.calls, name)]

\* ------------------------------------------------------------ lock daemon

OthersAllow(lockd, c, shared) ==
  \A d \in Ctx \ {c} :
     \/ lockd.lock[d] = "none"
     \/ shared /\ lockd.lock[d] = "shared"

\* LockConfig(ctx, shared): the graph when the lock is granted, else nothing
LockConfig(m, c, shared) ==
  IF OthersAllow(m.lockd, c, shared)
  THEN [Call(m, "LockConfig") EXCEPT
          !.lockd.lock[c] = IF shared /\ m.lockd.lock[c] # "excl" THEN "shared" ELSE "excl"]
  ELSE [m EXCEPT !.blocked = TRUE]

UnlockConfig(m, c) ==
  [Call(m, "UnlockConfig") EXCEPT !.lockd.lock[c] = "none"]

\* WriteConfig / WriteConfigAndUnlock fail with a lock error when the caller
\* does not hold the exclusive lock
WConfdWrite(m, c, d, unlock) ==
  LET m1 == Call(m, IF unlock THEN "WriteConfigAndUnlock" ELSE "WriteConfig")
  IN IF m.lockd.lock[c] = "excl"
     THEN [m1 EXCEPT !.lockd.data = d,
                     !.lockd.lock[c] = IF unlock THEN "none" ELSE "excl"]
     ELSE Raise(m1, "LockError")

\* ------------------------------------------------------ configuration file

\* utils.SafeWriteFile(destination, self._cfg_id, data=txt): refuses when the
\* file identity differs from the expected one, else replaces the file
SafeWriteFile(m, d) ==
  IF m.cfgfile.id # m.s.cfg_id
  THEN Raise(Call(m, "SafeWriteFile"), "LockError")
  ELSE [Call(m, "SafeWriteFile") EXCEPT
          !.cfgfile = [data |-> d, id |-> m.cfgfile.id + 1],
          !.s.cfg_id = m.cfgfile.id + 1]

\* ---------------------------------------------------------------- verifier

MaxOf(S) == IF S = {} THEN 0 ELSE CHOOSE x \in S : \A y \in S : y <= x


\* "exceptions and node.uuid in exceptions": None and the empty list skip nothing
Excepted(n, exceptions) == IF exceptions = <<>> THEN FALSE ELSE n \in exceptions[1]

\* _UnlockedGetMasterCandidateStats(exceptions): (mc_now, mc_should, mc_max)
UnlockedGetMasterCandidateStats(g, exceptions) ==
  LET counted == {n \in DOMAIN g.nodes : ~Excepted(n, exceptions)}
      mc_max == Cardinality({n \in counted :
                   ~(g.nodes[n].offline \/ g.nodes[n].drained) /\ g.nodes[n].master_capable})
      mc_now == Cardinality({n \in counted : g.nodes[n].master_candidate})
      mc_should == IF mc_max < g.cluster.candidate_pool_size THEN mc_max
                   ELSE g.cluster.candidate_pool_size
  IN <<mc_now, mc_should, mc_max>>

\* constants.IPOLICY_PARAMETERS: the instance-policy keys whose value is a float
IPolicyParameters == {"vcpu-ratio"}

\* names that utils.UUID_RE matches
UuidLikeNames == {"0a1b2c3d-0000-4000-8000-00000000000a"}

\* the last branch of _helper_ipolicy applied to every key of a policy whose
\* values are <<type, number>>: an int under a float key is converted and
\* stored back in the policy; bad are the keys whose value has the wrong type
\* after that
HelperIpolicy(ipolicy) ==
  LET exp_type(k) == IF k \in IPolicyParameters THEN "float" ELSE "list"
      value(k) == IF k \in IPolicyParameters /\ ipolicy[k][1] = "int"
                  THEN <<"float", ipolicy[k][2]>>
                  ELSE ipolicy[k]
  IN [ipolicy |-> [k \in DOMAIN ipolicy |-> value(k)],
      bad |-> {k \in DOMAIN ipolicy : value(k)[1] # exp_type(k)}]

\* cluster.SimpleFillIPolicy(ipolicy): a new dict, the cluster's policy with
\* the given entries on top
SimpleFillIPolicy(cluster, ipolicy) ==
  [k \in DOMAIN cluster.ipolicy \cup DOMAIN ipolicy |->
     IF k \in DOMAIN ipolicy THEN ipolicy[k] ELSE cluster.ipolicy[k]]

\* _VerifyDisks(data, result)
VerifyDisks(g) ==
  LET instance_disk_uuids == UNION {ListElems(g.instances[i].disks) : i \in DOMAIN g.instances}
  IN {<<"disk is indexed by wrong UUID", d>> :
        d \in {x \in DOMAIN g.disks : g.disks[x].uuid # x}}
     \cup {<<"disk is not attached to any instance", d>> :
        d \in {x \in DOMAIN g.disks : g.disks[x].uuid \notin instance_disk_uuids}}

\* the disk list _UnlockedGetInstanceDisks(instance.uuid) works on: that of
\* the instance stored under the uuid field of the instance being checked
DisksOf(g, i) == g.instances[g.instances[i].uuid].disks

\* where the per-instance loop stops: _UnlockedGetInstanceSecondaryNodes is
\* given instance.uuid and raises ConfigurationError when no instance is stored
\* under it; for a listed disk that is not stored _UnlockedGetInstanceDisks
\* yields None, and reading all_nodes of None fails. The instances are gone
\* through in one fixed order
RECURSIVE InstanceLoopExc(_, _)
InstanceLoopExc(g, todo) ==
  IF todo = {} THEN ""
  ELSE LET i == CHOOSE x \in todo : TRUE
       IN IF g.instances[i].uuid \notin DOMAIN g.instances THEN "ConfigurationError"
          ELSE IF \E k \in DOMAIN DisksOf(g, i) : DisksOf(g, i)[k] \notin DOMAIN g.disks
          THEN "AttributeError"
          ELSE InstanceLoopExc(g, todo \ {i})

\* the NICs of all instances as (instance, index) pairs
AllNics(g) == {<<i, k>> : i \in DOMAIN g.instances, k \in 1 .. MaxIdx} \cap
              UNION {{<<i, k>> : k \in DOMAIN g.instances[i].nics} : i \in DOMAIN g.instances}

\* how many owners the verifier collects for a port: DRBD disks of instances,
\* network ports of instances, and the pool of free ports
PortOwners(g, p) ==
  Cardinality({<<i, k>> \in {<<i, k>> : i \in DOMAIN g.instances, k \in 1 .. MaxIdx} :
                 /\ k \in DOMAIN DisksOf(g, i)
                 /\ g.disks[DisksOf(g, i)[k]].dev_type = "drbd"
                 /\ g.disks[DisksOf(g, i)[k]].port = p})
  + Cardinality({i \in DOMAIN g.instances : g.instances[i].network_port = <<p>>})
  + (IF p \in g.cluster.tcpudp_port_pool THEN 1 ELSE 0)

PortKeys(g) ==
  {g.disks[d].port : d \in {x \in UNION {ListElems(DisksOf(g, i)) : i \in DOMAIN g.instances} :
                              g.disks[x].dev_type = "drbd"}}
  \cup {g.instances[i].network_port[1] : i \in {x \in DOMAIN g.instances :
                                                  g.instances[x].network_port # <<>>}}
  \cup g.cluster.tcpudp_port_pool

\* the per-instance checks, for a graph on which the loop does not stop
VerifyInstances(g) ==
  UNION {
    LET instance == g.instances[i]
        disks == DisksOf(g, i)
        snodes == UNION {g.disks[disks[k]].nodes : k \in DOMAIN disks} \ {instance.primary_node}
    IN (IF instance.uuid # i THEN {<<"instance is indexed by wrong UUID", i>>} ELSE {})
       \cup (IF instance.primary_node \notin DOMAIN g.nodes
             THEN {<<"instance has invalid primary node", i>>} ELSE {})
       \cup {<<"instance has invalid secondary node", i, n>> : n \in snodes \ DOMAIN g.nodes}
       \cup (IF instance.disk_template \notin g.cluster.enabled_disk_templates
             THEN {<<"instance uses the disabled disk template", i>>} ELSE {})
       \cup {<<"Instance has invalid disk", i, d>> :
               d \in ListElems(instance.disks) \ DOMAIN g.disks}
       \cup (IF \E k \in DOMAIN disks : g.disks[disks[k]].iv_name # IvName(k - 1)
             THEN {<<"instance has wrongly named disks", i>>} ELSE {})
    : i \in DOMAIN g.instances}
  \cup {<<"instance has NIC mac duplicate", g.instances[x[1]].nics[x[2]].mac>> :
         x \in {y \in AllNics(g) : \E z \in AllNics(g) :
                  /\ z # y
                  /\ g.instances[z[1]].nics[z[2]].mac = g.instances[y[1]].nics[y[2]].mac}}

\* the port checks
VerifyPorts(g) ==
  (IF \E p \in PortKeys(g) : PortOwners(g, p) > 1
   THEN {<<"tcp/udp port has duplicates">>} ELSE {})
  \cup (IF PortKeys(g) # {} /\ MaxOf(PortKeys(g)) > g.cluster.highest_used_port
        THEN {<<"Highest used port mismatch">>} ELSE {})

\* the node checks
VerifyNodes(g) ==
  UNION {
    LET node == g.nodes[n]
    IN (IF node.uuid # n THEN {<<"Node is indexed by wrong UUID", n>>} ELSE {})
       \cup (IF Cardinality({f \in {"master_candidate", "drained", "offline"} : node[f]}) > 1
             THEN {<<"Node state is invalid", n>>} ELSE {})
       \cup (IF node.group \notin DOMAIN g.nodegroups
             THEN {<<"Node has invalid group", n>>} ELSE {})
    : n \in DOMAIN g.nodes}

\* the node group checks; the policy checked is a filled copy
VerifyNodeGroups(g) ==
  UNION {
    LET nodegroup == g.nodegroups[u]
    IN (IF nodegroup.uuid # u THEN {<<"node group indexed by wrong uuid", u>>} ELSE {})
       \cup (IF nodegroup.name \in UuidLikeNames
             THEN {<<"node group has uuid-like name", u>>} ELSE {})
       \cup {<<"group has invalid instance policy", u, k>> :
               k \in HelperIpolicy(SimpleFillIPolicy(g.cluster, nodegroup.ipolicy)).bad}
    : u \in DOMAIN g.nodegroups}
  \cup {<<"duplicate node group name", g.nodegroups[u].name>> :
         u \in {x \in DOMAIN g.nodegroups : \E y \in DOMAIN g.nodegroups :
                  y # x /\ g.nodegroups[y].name = g.nodegroups[x].name}}

\* the owners of a plain address: the cluster, node primary addresses and
\* node secondary addresses that differ from the primary
IpOwners(g, ip) ==
  (IF g.cluster.master_ip = ip THEN 1 ELSE 0)
  + Cardinality({n \in DOMAIN g.nodes : g.nodes[n].primary_ip = ip})
  + Cardinality({n \in DOMAIN g.nodes :
                  g.nodes[n].secondary_ip # g.nodes[n].primary_ip /\ g.nodes[n].secondary_ip = ip})

\* the IP checks; a NIC with an address is entered as link/ip/network, which
\* never equals a plain address
VerifyIps(g) ==
  {<<"IP address is used by multiple owners", ip>> :
     ip \in {x \in {g.cluster.master_ip}
                  \cup {g.nodes[n].primary_ip : n \in DOMAIN g.nodes}
                  \cup {g.nodes[n].secondary_ip : n \in DOMAIN g.nodes} : IpOwners(g, x) > 1}}
  \cup {<<"IP address is used by multiple owners", g.instances[x[1]].nics[x[2]].ip[1]>> :
         x \in {y \in AllNics(g) :
                 /\ g.instances[y[1]].nics[y[2]].ip # <<>>
                 /\ \E z \in AllNics(g) :
                      /\ z # y
                      /\ g.instances[z[1]].nics[z[2]].ip = g.instances[y[1]].nics[y[2]].ip
                      /\ g.instances[z[1]].nics[z[2]].link = g.instances[y[1]].nics[y[2]].link
                      /\ g.instances[z[1]].nics[z[2]].network
                           = g.instances[y[1]].nics[y[2]].network}}

\* _UnlockedVerifyConfig on a graph: the cluster's policy goes through the
\* helper first; the per-instance loop may stop the run where the secondary
\* nodes are computed, a master node that is not stored stops it at the master
\* candidate check; LockD's own verification reports nothing here
VerifyGraph(g) ==
  LET h == HelperIpolicy(g.cluster.ipolicy)
      g1 == [g EXCEPT !.cluster.ipolicy = h.ipolicy]
      stats == UnlockedGetMasterCandidateStats(g1, <<>>)
  IN IF InstanceLoopExc(g1, DOMAIN g1.instances) # ""
     THEN [g |-> g1, exc |-> InstanceLoopExc(g1, DOMAIN g1.instances), result |-> {}]
     ELSE IF g1.cluster.master_node \notin DOMAIN g1.nodes
     THEN [g |-> g1, exc |-> "KeyError", result |-> {}]
     ELSE [g |-> g1, exc |-> "",
           result |->
             {<<"cluster has invalid instance policy", k>> : k \in h.bad}
             \cup VerifyDisks(g1) \cup VerifyInstances(g1) \cup VerifyPorts(g1)
             \cup (IF ~g1.nodes[g1.cluster.master_node].master_candidate
                   THEN {<<"Master node is not a master candidate">>} ELSE {})
             \cup (IF stats[1] < stats[2] THEN {<<"Not enough master candidates">>} ELSE {})
             \cup VerifyNodes(g1) \cup VerifyNodeGroups(g1) \cup VerifyIps(g1)]

\* _UnlockedVerifyConfigAndLog(): the messages are logged and returned; a
\* graph whose entities carry none of the verified fields has nothing to verify
VerifyOutcome(m1, r) ==
  IF r.exc # "" THEN Raise(SetConfigData(m1, r.g), r.exc)
  ELSE [SetConfigData(m1, r.g) EXCEPT !.ret = <<r.result>>]

UnlockedVerifyConfigAndLog(m) ==
  IF "ipolicy" \notin DOMAIN ConfigData(m).cluster THEN m
  ELSE VerifyOutcome(IF m.s.offline THEN m ELSE Call(m, "VerifyConfig"),
                     VerifyGraph(ConfigData(m)))

\* ------------------------------------------------------ upgrade on load

\* _UnlockedAddNodeToGroup(node_uuid, nodegroup_uuid)
UnlockedAddNodeToGroup(g, n, grp) ==
  IF grp \notin DOMAIN g.nodegroups
  THEN [g |-> g, exc |-> "OpExecError"]
  ELSE IF n \in ListElems(g.nodegroups[grp].members)
  THEN [g |-> g, exc |-> ""]
  ELSE [g |-> [g EXCEPT !.nodegroups[grp].members = Append(@, n)], exc |-> ""]

\* the loop of _UpgradeConfig over the nodes: a node without a group gets the
\* only group (_UnlockedLookupNodeGroup(None)), and every node is entered in
\* the members list of its group; the first failure ends the loop
RECURSIVE UpgradeNodes(_, _)
UpgradeNodes(g, todo) ==
  IF todo = {} THEN [g |-> g, exc |-> ""]
  ELSE LET n == CHOOSE x \in todo : TRUE
           nogroup == g.nodes[n].group = ""
       IN IF nogroup /\ Cardinality(DOMAIN g.nodegroups) # 1
          THEN [g |-> g, exc |-> "OpPrereqError"]
          ELSE LET grp == IF nogroup THEN CHOOSE u \in DOMAIN g.nodegroups : TRUE
                          ELSE g.nodes[n].group
                   g1 == [g EXCEPT !.nodes[n].group = grp]
                   r == UnlockedAddNodeToGroup(g1, n, grp)
               IN IF r.exc # "" THEN r ELSE UpgradeNodes(r.g, todo \ {n})

\* _UnlockedAddNodeGroup(default_nodegroup, _UPGRADE_CONFIG_JID, True) when the
\* configuration has no node group at all
AddDefaultNodeGroup(g) ==
  IF DOMAIN g.nodegroups # {} THEN g
  ELSE [g EXCEPT !.nodegroups = Put(@, DefaultGroupId, [serial_no |-> 1, members |-> <<>>]),
                 !.cluster.serial_no = @ + 1]

\* _BumpSerialNo
BumpSerialNo(g) == [g EXCEPT !.serial_no = @ + 1]

\* _WriteConfig(releaselock)
WriteConfig(m, c, releaselock) ==
  IF m.s.offline
  THEN LET m1 == SetConfigData(m, BumpSerialNo(ConfigData(m)))
           m2 == SafeWriteFile(m1, ToDict(ConfigData(m1)))
       IN IF m2.exc = "LockError" THEN Raise(m2, "ConfigurationError") ELSE m2
  ELSE LET m2 == WConfdWrite(m, c, ToDict(ConfigData(m)), releaselock)
       IN IF m2.exc = "LockError" THEN Raise(m2, "ConfigurationError") ELSE m2

\* _UpgradeConfig(saveafter)
UpgradeConfig(m, c, saveafter) ==
  LET oldconf == ToDict(ConfigData(m))
      r == UpgradeNodes(AddDefaultNodeGroup(ConfigData(m)), DOMAIN ConfigData(m).nodes)
      m1 == SetConfigData(m, r.g)
  IN IF r.exc # "" THEN Raise(m1, r.exc)
     ELSE IF oldconf # ToDict(r.g) /\ saveafter THEN WriteConfig(m1, c, FALSE)
     ELSE IF m1.s.offline THEN [UnlockedVerifyConfigAndLog(m1) EXCEPT !.ret = <<>>]
     ELSE m1

\* ---------------------------------------------------------- session manager

\* the offline branch of _OpenConfig: read and check the file, install the
\* graph, upgrade it (saving when the upgrade changed something)
OpenOffline_NoValidate(m, c) ==
  LET d == m.cfgfile.data
      m1 == [Call(m, "ReadFile") EXCEPT !.s.cfg_id = m.cfgfile.id]
  IN IF d.cluster.master_node \notin DOMAIN d.nodes
     THEN Raise(m1, "ConfigurationError")
     ELSE UpgradeConfig(InstallConfigData(m1, FromDict(d)), c, TRUE)

OpenOffline(m, c) ==
  LET d == m.cfgfile.data
      m0 == Call(m, "ReadFile")
      m1 == [m0 EXCEPT !.s.cfg_id = m.cfgfile.id]
  IN IF ValidateConfig(d) # "" THEN Raise(m0, ValidateConfig(d))
     ELSE IF d.cluster.master_node \notin DOMAIN d.nodes
     THEN Raise(m1, "ConfigurationError")
     ELSE UpgradeConfig(InstallConfigData(m1, FromDict(d)), c, TRUE)

\* variant of the online branch that keeps a cached graph on every open
OpenOnline_KeepCache(m, c, shared, force) ==
  IF shared /\ ~force
  THEN IF m.s.config_data = <<>>
       THEN UpgradeConfig(InstallConfigData(Call(m, "ReadConfig"), FromDict(m.lockd.data)), c, FALSE)
       ELSE UpgradeConfig(m, c, FALSE)
  ELSE LET m1 == LockConfig(m, c, shared)
       IN IF m1.blocked THEN m1
          ELSE IF m.s.config_data # <<>> THEN UpgradeConfig(m1, c, FALSE)
          ELSE UpgradeConfig(InstallConfigData(m1, FromDict(m.lockd.data)), c, FALSE)

\* the online branch of _OpenConfig: a shared, unforced open trusts a cached
\* graph and calls ReadConfig only when there is none; every other open polls
\* LockConfig until it returns a graph
OpenOnline(m, c, shared, force) ==
  IF shared /\ ~force
  THEN IF m.s.config_data = <<>>
       THEN UpgradeConfig(InstallConfigData(Call(m, "ReadConfig"), FromDict(m.lockd.data)), c, FALSE)
       ELSE UpgradeConfig(m, c, FALSE)
  ELSE LET m1 == LockConfig(m, c, shared)
       IN IF m1.blocked THEN m1
          ELSE UpgradeConfig(InstallConfigData(m1, FromDict(m.lockd.data)), c, FALSE)

\* variant of _OpenConfig in which force lets a nested exclusive request pass
OpenConfig_ForcePasses(m, c, shared, force) ==
  LET n == m.s.lock_count + 1
      m1 == [m EXCEPT !.s.lock_count = n]
      m2 == IF n > 1 THEN m1 ELSE [m1 EXCEPT !.s.lock_current_shared = shared]
      m3 == IF force THEN [m2 EXCEPT !.s.lock_forced = TRUE] ELSE m2
  IN IF n > 1 /\ m1.s.lock_current_shared /\ ~shared /\ ~force
     THEN Raise([m1 EXCEPT !.s.lock_count = n - 1], "ConfigurationError")
     ELSE IF n > 1 /\ (~force \/ m1.s.lock_forced \/ ~shared \/ m1.s.offline)
     THEN m1
     ELSE IF m3.s.offline THEN OpenOffline(m3, c)
     ELSE OpenOnline(m3, c, shared, force)

\* _OpenConfig(shared, force)
OpenConfig(m, c, shared, force) ==
  LET n == m.s.lock_count + 1
      m1 == [m EXCEPT !.s.lock_count = n]
      m2 == IF n > 1 THEN m1 ELSE [m1 EXCEPT !.s.lock_current_shared = shared]
      m3 == IF force THEN [m2 EXCEPT !.s.lock_forced = TRUE] ELSE m2
  IN IF n > 1 /\ m1.s.lock_current_shared /\ ~shared
     THEN Raise([m1 EXCEPT !.s.lock_count = n - 1], "ConfigurationError")
     ELSE IF n > 1 /\ (~force \/ m1.s.lock_forced \/ ~shared \/ m1.s.offline)
     THEN m1
     ELSE IF m3.s.offline THEN OpenOffline(m3, c)
     ELSE OpenOnline(m3, c, shared, force)

\* _CloseConfig(save)
CloseConfig(m, c, save) ==
  LET n == m.s.lock_count - 1
      m1 == [m EXCEPT !.s.lock_count = n]
  IN IF n > 0 THEN m1
     ELSE IF save THEN WriteConfig(m1, c, TRUE)
     ELSE IF ~m1.s.offline /\ ~(m1.s.lock_current_shared /\ ~m1.s.lock_forced)
     THEN [UnlockConfig(m1, c) EXCEPT !.s.lock_forced = FALSE]
     ELSE m1

\* DetachedConfig._OpenConfig(shared, force)
DetachedOpenConfig_Allows(m, shared) == m

DetachedOpenConfig(m, shared) ==
  IF ~shared THEN Raise(m, "ProgrammerError") ELSE m

\* DetachedConfig._CloseConfig(save)
DetachedCloseConfig(m, save) ==
  IF save THEN Raise(m, "ProgrammerError") ELSE m

\* self._OpenConfig / self._CloseConfig as the class of the store resolves them
OpenConfigOf(m, c, shared, force) ==
  IF m.s.detached THEN DetachedOpenConfig(m, shared) ELSE OpenConfig(m, c, shared, force)

CloseConfigOf(m, c, save) ==
  IF m.s.detached THEN DetachedCloseConfig(m, save) ELSE CloseConfig(m, c, save)

\* ConfigManager.__enter__: a failed open is followed by _CloseConfig(False),
\* whose own failure is swallowed, and the open's exception is raised again
OpenFailed(m1, c) ==
  IF m1.blocked \/ m1.exc = "" THEN m1
  ELSE [CloseConfigOf([m1 EXCEPT !.exc = ""], c, FALSE) EXCEPT !.exc = m1.exc, !.skip = TRUE]

EnterCM(m, c, shared, force) ==
  IF m.exc # "" THEN m ELSE OpenFailed(OpenConfigOf(m, c, shared, force), c)

\* variant of __exit__ that saves whether or not the body raised
ExitCM_SaveAlways(m, c, shared) ==
  IF m.skip \/ m.blocked THEN m
  ELSE LET m1 == CloseConfigOf([m EXCEPT !.exc = ""], c, ~shared)
       IN IF m1.exc # "" THEN m1 ELSE [m1 EXCEPT !.exc = m.exc]

\* ConfigManager.__exit__: closes with save iff the manager is exclusive and the
\* body raised nothing; returns False, so the body's exception goes on, unless
\* the close itself raises
ExitCM(m, c, shared) ==
  IF m.skip \/ m.blocked THEN m
  ELSE LET m1 == CloseConfigOf([m EXCEPT !.exc = ""], c, ~shared /\ m.exc = "")
       IN IF m1.exc # "" THEN m1 ELSE [m1 EXCEPT !.exc = m.exc]

\* ------------------------------------------------------ accessors (bodies)

\* a body runs only when the session was entered and nothing is being raised
Runs(m) == m.exc = "" /\ ~m.skip /\ ~m.blocked

\* GetInstanceInfo: the stored object itself (not a copy) is handed out
\* VerifyConfig(): the wrapper that returns the list of messages
VerifyConfigBody(m) == IF ~Runs(m) THEN m ELSE UnlockedVerifyConfigAndLog(m)

GetInstanceInfoBody(m, i) ==
  IF ~Runs(m) THEN m
  ELSE IF i \notin DOMAIN ConfigData(m).instances THEN [m EXCEPT !.tgt = <<>>]
  ELSE [m EXCEPT !.tgt = <<[kind |-> "instance", uuid |-> i,
                            obj |-> ConfigData(m).instances[i], aliased |-> TRUE]>>]

\* GetNodeInfo
GetNodeInfoBody(m, n) ==
  IF ~Runs(m) THEN m
  ELSE IF n \notin DOMAIN ConfigData(m).nodes THEN [m EXCEPT !.tgt = <<>>]
  ELSE [m EXCEPT !.tgt = <<[kind |-> "node", uuid |-> n,
                            obj |-> ConfigData(m).nodes[n], aliased |-> TRUE]>>]

\* variant of check_serial that accepts any serial number of a known object
CheckSerial_KnownOnly(tdict, t) ==
  IF t.uuid \notin DOMAIN tdict THEN "ConfigurationError" ELSE ""

\* check_serial(target, current) of Update
CheckSerial(tdict, t) ==
  IF t.uuid \notin DOMAIN tdict THEN "ConfigurationError"
  ELSE IF tdict[t.uuid].serial_no # t.obj.serial_no THEN "ConfigurationError"
  ELSE ""

\* _UnlockedReleaseDRBDMinors: a call to WConfd unless offline
UnlockedReleaseDRBDMinors(m) ==
  IF m.s.offline THEN m ELSE Call(m, "ReleaseDRBDMinors")

\* variant of Update that stores the target before comparing serial numbers
UpdateBody_StoreFirst(m) ==
  IF ~Runs(m) THEN m
  ELSE LET t == m.tgt[1]
           g == ConfigData(m)
           g1 == [g EXCEPT !.instances = Put(@, t.uuid, t.obj)]
       IN IF CheckSerial(g.instances, t) # ""
          THEN Raise(SetConfigData(m, g1), CheckSerial(g.instances, t))
          ELSE UnlockedReleaseDRBDMinors(
                 [SetConfigData(m, [g EXCEPT !.instances =
                                      Put(@, t.uuid, [t.obj EXCEPT !.serial_no = @ + 1])])
                    EXCEPT !.tgt = <<[t EXCEPT !.obj.serial_no = @ + 1, !.aliased = TRUE]>>])

\* Update(target, feedback_fn, ec_id=None) for a stored object type: serial
\* check, replace, bump the target's serial_no (the stored object is the
\* target itself from then on); a node also bumps the cluster's
UpdateBody(m) ==
  IF ~Runs(m) THEN m
  ELSE LET t == m.tgt[1]
           g == ConfigData(m)
           tdict == IF t.kind = "instance" THEN g.instances ELSE g.nodes
           obj == [t.obj EXCEPT !.serial_no = @ + 1]
           g1 == IF t.kind = "instance"
                 THEN [g EXCEPT !.instances = Put(@, t.uuid, obj)]
                 ELSE [g EXCEPT !.nodes = Put(@, t.uuid, obj),
                                !.cluster.serial_no = @ + 1]
           m1 == [SetConfigData(m, g1) EXCEPT
                    !.tgt = <<[t EXCEPT !.obj = obj, !.aliased = TRUE]>>]
           m2 == IF t.kind = "instance" THEN UnlockedReleaseDRBDMinors(m1) ELSE m1
       IN IF CheckSerial(tdict, t) # "" THEN Raise(m, CheckSerial(tdict, t))
          ELSE IF m2.exc # "" THEN m2
          ELSE [UnlockedVerifyConfigAndLog(m2) EXCEPT !.ret = <<>>]

\* RemoveNodeGroup without its check for the last group
RemoveNodeGroupBody_AnyGroup(m, grp) ==
  IF ~Runs(m) THEN m
  ELSE LET g == ConfigData(m)
       IN IF grp \notin DOMAIN g.nodegroups THEN Raise(m, "ConfigurationError")
          ELSE SetConfigData(m, [g EXCEPT !.nodegroups = Del(@, grp),
                                          !.cluster.serial_no = @ + 1])

\* RemoveNodeGroup(group_uuid)
RemoveNodeGroupBody(m, grp) ==
  IF ~Runs(m) THEN m
  ELSE LET g == ConfigData(m)
       IN IF grp \notin DOMAIN g.nodegroups THEN Raise(m, "ConfigurationError")
          ELSE IF Cardinality(DOMAIN g.nodegroups) = 1 THEN Raise(m, "AssertionError")
          ELSE SetConfigData(m, [g EXCEPT !.nodegroups = Del(@, grp),
                                          !.cluster.serial_no = @ + 1])

\* ------------------------------------------------------------ disk handling

\* _AllIDs(include_temporary=False): every UUID the configuration knows
AllIDs(g) ==
  DOMAIN g.instances \cup DOMAIN g.nodes \cup DOMAIN g.nodegroups \cup DOMAIN g.disks
    \cup (IF "networks" \in DOMAIN g THEN DOMAIN g.networks ELSE {})

\* TemporaryReservationManager: the reservations are (ec_id, name) pairs
\* GetReserved()
GetReserved(rm) == {x[2] : x \in rm}

\* TemporaryReservationManager.DropECReservations(ec_id)
RmDropECReservations(rm, ec) == {x \in rm : x[1] # ec}

\* _AllIDs(include_temporary=True)
AllIDsAndTemporary(m) == AllIDs(ConfigData(m)) \cup GetReserved(m.s.temporary_ids)

\* _GenerateUniqueID(ec_id): drawn is the value of utils.NewUUID the loop of
\* Generate ends with; a value that is taken stands for retries that ran out
GenerateUniqueIDOf(m, ec, drawn) ==
  IF drawn \in AllIDsAndTemporary(m) THEN Raise(m, "ConfigurationError")
  ELSE [m EXCEPT !.s.temporary_ids = @ \cup {<<ec, drawn>>}, !.ret = <<drawn>>]

\* _EnsureUUID(item, ec_id): the machine returns the UUID the item ends with
EnsureUUID(m, uuid, ec, drawn) ==
  IF uuid = <<>> THEN GenerateUniqueIDOf(m, ec, drawn)
  ELSE IF uuid[1] \in AllIDsAndTemporary(m) THEN Raise(m, "ConfigurationError")
  ELSE [m EXCEPT !.ret = uuid]

\* _UpdateIvNames(base_idx, disks) applied to the disk objects that
\* _UnlockedGetInstanceDisks returns for positions base_idx.. of the list
\* (k counts from 1); an unknown UUID yields None, whose iv_name cannot be set
RECURSIVE UpdateIvNames(_, _, _)
UpdateIvNames(g, uuids, k) ==
  IF k > Len(uuids) THEN [g |-> g, exc |-> ""]
  ELSE IF uuids[k] \notin DOMAIN g.disks THEN [g |-> g, exc |-> "AttributeError"]
  ELSE UpdateIvNames([g EXCEPT !.disks[uuids[k]].iv_name = IvName(k - 1)], uuids, k + 1)

\* _UnlockedAddDisk(disk)
UnlockedAddDisk(m, disk) ==
  IF ~Runs(m) THEN m
  ELSE LET g == ConfigData(m)
       IN IF disk.uuid \in AllIDs(g) THEN Raise(m, "ConfigurationError")
          ELSE SetConfigData(m,
                 [g EXCEPT !.disks = Put(@, disk.uuid,
                                         [iv_name |-> disk.iv_name, serial_no |-> 1]),
                           !.cluster.serial_no = @ + 1])

\* variant of _UnlockedAttachInstanceDisk that takes the index -1 for "append"
UnlockedAttachInstanceDisk_MinusOne(m, inst, disk_uuid, idx) ==
  IF ~Runs(m) THEN m
  ELSE LET g == ConfigData(m) IN
    IF inst \notin DOMAIN g.instances THEN Raise(m, "ConfigurationError")
    ELSE IF disk_uuid \notin DOMAIN g.disks THEN Raise(m, "ConfigurationError")
    ELSE LET n == Len(g.instances[inst].disks)
             at == IF idx = <<>> THEN n ELSE IF idx[1] = -1 THEN n ELSE idx[1]
         IN IF at < 0 THEN Raise(m, "IndexError")
            ELSE IF at > n THEN Raise(m, "IndexError")
            ELSE IF \E j \in DOMAIN g.instances : disk_uuid \in ListElems(g.instances[j].disks)
            THEN Raise(m, "ReservationError")
            ELSE LET g1 == [g EXCEPT !.instances[inst].disks = ListInsert(@, at, disk_uuid)]
                     r == UpdateIvNames(g1, g1.instances[inst].disks, at + 1)
                 IN IF r.exc # "" THEN Raise(SetConfigData(m, r.g), r.exc)
                    ELSE SetConfigData(m, [r.g EXCEPT !.instances[inst].serial_no = @ + 1])

\* _UnlockedAttachInstanceDisk(inst_uuid, disk_uuid, idx); idx is <<>> for
\* None and <<k>> for the integer k
UnlockedAttachInstanceDisk(m, inst, disk_uuid, idx) ==
  IF ~Runs(m) THEN m
  ELSE LET g == ConfigData(m) IN
    IF inst \notin DOMAIN g.instances THEN Raise(m, "ConfigurationError")
    ELSE IF disk_uuid \notin DOMAIN g.disks THEN Raise(m, "ConfigurationError")
    ELSE LET n == Len(g.instances[inst].disks)
             at == IF idx = <<>> THEN n ELSE idx[1]
         IN IF at < 0 THEN Raise(m, "IndexError")
            ELSE IF at > n THEN Raise(m, "IndexError")
            ELSE IF \E j \in DOMAIN g.instances : disk_uuid \in ListElems(g.instances[j].disks)
            THEN Raise(m, "ReservationError")
            ELSE LET g1 == [g EXCEPT !.instances[inst].disks = ListInsert(@, at, disk_uuid)]
                     r == UpdateIvNames(g1, g1.instances[inst].disks, at + 1)
                 IN IF r.exc # "" THEN Raise(SetConfigData(m, r.g), r.exc)
                    ELSE SetConfigData(m, [r.g EXCEPT !.instances[inst].serial_no = @ + 1])

\* variant of AddInstanceDisk that neither checks the UUID nor where the disk
\* is attached
AddInstanceDiskBody_Unchecked(m, inst, disk, idx) ==
  IF ~Runs(m) THEN m
  ELSE LET g == ConfigData(m) IN
    IF inst \notin DOMAIN g.instances THEN Raise(m, "ConfigurationError")
    ELSE LET g1 == [g EXCEPT !.disks = Put(@, disk.uuid, [iv_name |-> disk.iv_name,
                                                          serial_no |-> 1]),
                             !.instances[inst].disks = Append(@, disk.uuid)]
         IN SetConfigData(m, UpdateIvNames(g1, g1.instances[inst].disks, 1).g)

\* AddInstanceDisk(inst_uuid, disk, idx=None)
AddInstanceDiskBody(m, inst, disk, idx) ==
  UnlockedAttachInstanceDisk(UnlockedAddDisk(m, disk), inst, disk.uuid, idx)

\* variant of _UnlockedDetachInstanceDisk that leaves the iv_names alone
UnlockedDetachInstanceDisk_NoRename(m, inst, disk_uuid) ==
  IF ~Runs(m) THEN m
  ELSE LET g == ConfigData(m) IN
    IF inst \notin DOMAIN g.instances THEN Raise(m, "ConfigurationError")
    ELSE IF disk_uuid \notin DOMAIN g.disks THEN Raise(m, "ConfigurationError")
    ELSE IF disk_uuid \notin ListElems(g.instances[inst].disks)
    THEN Raise(m, "ProgrammerError")
    ELSE SetConfigData(m, [g EXCEPT !.instances[inst].disks = ListRemove(@, disk_uuid),
                                    !.instances[inst].serial_no = @ + 1])

\* _UnlockedDetachInstanceDisk(inst_uuid, disk_uuid)
UnlockedDetachInstanceDisk(m, inst, disk_uuid) ==
  IF ~Runs(m) THEN m
  ELSE LET g == ConfigData(m) IN
    IF inst \notin DOMAIN g.instances THEN Raise(m, "ConfigurationError")
    ELSE IF disk_uuid \notin DOMAIN g.disks THEN Raise(m, "ConfigurationError")
    ELSE IF disk_uuid \notin ListElems(g.instances[inst].disks)
    THEN Raise(m, "ProgrammerError")
    ELSE LET at == ListIndex(g.instances[inst].disks, disk_uuid)
             g1 == [g EXCEPT !.instances[inst].disks = ListRemove(@, disk_uuid)]
             r == UpdateIvNames(g1, g1.instances[inst].disks, at + 1)
         IN IF r.exc # "" THEN Raise(SetConfigData(m, r.g), r.exc)
            ELSE SetConfigData(m, [r.g EXCEPT !.instances[inst].serial_no = @ + 1])

\* _UnlockedRemoveDisk(disk_uuid)
UnlockedRemoveDisk(m, disk_uuid) ==
  IF ~Runs(m) THEN m
  ELSE LET g == ConfigData(m) IN
    IF disk_uuid \notin DOMAIN g.disks THEN Raise(m, "ConfigurationError")
    ELSE IF \E j \in DOMAIN g.instances : disk_uuid \in ListElems(g.instances[j].disks)
    THEN Raise(m, "ReservationError")
    ELSE SetConfigData(m, [g EXCEPT !.disks = Del(@, disk_uuid),
                                    !.cluster.serial_no = @ + 1])

\* variant of RemoveInstanceDisk that removes the disk from the table first
RemoveInstanceDiskBody_TableFirst(m, inst, disk_uuid) ==
  UnlockedDetachInstanceDisk(UnlockedRemoveDisk(m, disk_uuid), inst, disk_uuid)

\* RemoveInstanceDisk(inst_uuid, disk_uuid)
RemoveInstanceDiskBody(m, inst, disk_uuid) ==
  UnlockedRemoveDisk(UnlockedDetachInstanceDisk(m, inst, disk_uuid), disk_uuid)

\* ------------------------------------------------------------------ state

VARIABLES
  cfg,      \* cfg[c]: the ConfigWriter of execution context c (each has its own)
  lockd,    \* the lock daemon: authoritative graph (dict form) and config lock
  cfgfile,  \* the configuration file: content (dict form) and file identity
  stack,    \* stack[c]: the ConfigManager frames c has entered, innermost last
  tgt,      \* tgt[c]: the entity object c holds (<<>> when none)
  acct,     \* acct[c]: bookkeeping of LockConfig grants and releasing calls
  last      \* the operation that led to this state and what it did

vars == <<cfg, lockd, cfgfile, stack, tgt, acct, last>>

\* ConfigWriter.__init__
\* a store as the constructor leaves it; wconfd tells whether it was given a
\* LockD client (GetConfig passes one, a bare ConfigWriter(offline=True) none)
NewStoreWith(offline, wconfd) ==
  [offline |-> offline, wconfd |-> wconfd, lock_count |-> 0, lock_current_shared |-> FALSE,
   lock_forced |-> FALSE, config_data |-> <<>>, cfg_id |-> 0,
   detached |-> FALSE, origin |-> <<>>, temporary_ids |-> {}]

NewStore(offline) == NewStoreWith(offline, TRUE)

\* a configuration as bootstrap leaves it, with one instance and two groups
NormalDict ==
  [version |-> CONFIG_VERSION,
   cluster |-> [serial_no |-> 1, master_node |-> "n1"],
   serial_no |-> 1,
   instances |-> [i \in {"i1"} |-> [disks |-> <<>>, admin_state |-> "up", serial_no |-> 1]],
   disks |-> EmptyMap,
   nodes |-> [n \in NodeIds |-> [group |-> "g1", serial_no |-> 1]],
   nodegroups |-> [u \in GroupIds |-> [serial_no |-> 1]]]

\* a configuration written before node groups existed
LegacyDict ==
  [NormalDict EXCEPT !.nodes = [n \in NodeIds |-> [group |-> "", serial_no |-> 1]],
                     !.nodegroups = EmptyMap]

\* a configuration with two instances and no disk yet
DiskDict ==
  [NormalDict EXCEPT
     !.instances = [i \in InstIds |-> [disks |-> <<>>, admin_state |-> "up", serial_no |-> 1]]]

NoOp ==
  [op |-> "", c |-> "", depth |-> 0, shared |-> FALSE, force |-> FALSE,
   excIn |-> FALSE, exc |-> "", calls |-> <<>>, cached |-> <<>>, opened |-> <<>>,
   body |-> <<>>, arg |-> <<>>, ret |-> <<>>]

Mach(c) ==
  [s |-> cfg[c], lockd |-> lockd, cfgfile |-> cfgfile, tgt |-> tgt[c],
   calls |-> <<>>, exc |-> "", skip |-> FALSE, blocked |-> FALSE, ret |-> <<>>,
   rebound |-> FALSE]

\* grants and releases as the store issues them: held is a LockConfig grant not
\* yet followed by a releasing call, rel the releasing calls since that grant,
\* got whether the current outermost session obtained a grant, released
\* whether a ReleaseDRBDMinors call was issued since that session was opened
RECURSIVE Account(_, _, _)
Account(a, calls, k) ==
  IF k > Len(calls) THEN a
  ELSE IF calls[k] = "LockConfig"
  THEN Account(IF a.held THEN [a EXCEPT !.got = TRUE]
               ELSE [a EXCEPT !.held = TRUE, !.rel = 0, !.got = TRUE], calls, k + 1)
  ELSE IF calls[k] \in {"UnlockConfig", "WriteConfigAndUnlock"}
  THEN Account([a EXCEPT !.held = FALSE, !.rel = IF @ < 2 THEN @ + 1 ELSE @], calls, k + 1)
  ELSE IF calls[k] = "ReleaseDRBDMinors"
  THEN Account([a EXCEPT !.released = TRUE], calls, k + 1)
  ELSE Account(a, calls, k + 1)

\* the largest serial number in a graph (dict or object form)
MaxSer(g) ==
  MaxOf({g.serial_no, g.cluster.serial_no}
        \cup {g.instances[i].serial_no : i \in DOMAIN g.instances}
        \cup {g.disks[d].serial_no : d \in DOMAIN g.disks}
        \cup {g.nodes[n].serial_no : n \in DOMAIN g.nodes}
        \cup {g.nodegroups[u].serial_no : u \in DOMAIN g.nodegroups})

\* callers stop starting operations once a serial number reached the cap
Bounded(c) ==
  /\ MaxSer(lockd.data) < MaxSerial
  /\ MaxSer(cfgfile.data) < MaxSerial
  /\ IF cfg[c].config_data = <<>> THEN TRUE ELSE MaxSer(cfg[c].config_data[1]) < MaxSerial
  /\ IF tgt[c] = <<>> THEN TRUE ELSE tgt[c][1].obj.serial_no < MaxSerial

\* the body of the innermost frame is running (no exception on its way out)
BodyRunning(c) == IF stack[c] = <<>> THEN TRUE ELSE ~stack[c][Len(stack[c])].exc

\* an exception leaving an operation reaches the body of the enclosing frame,
\* which may catch it or let it go on
Propagate(stk, exc, caught) ==
  IF exc = "" \/ stk = <<>> \/ caught THEN stk
  ELSE [stk EXCEPT ![Len(stk)].exc = TRUE]

\* whether the body of the enclosing block catches an exception that reaches it
\* (outside every block there is nothing to tell apart)
Catches(c) == IF stack[c] = <<>> THEN {FALSE} ELSE BOOLEAN

\* the stores after store c became s: a detached store made from the graph
\* object c holds reads that very object, so it sees what is done to it, until
\* c binds another object (rebound)
Sharing(c, s, rebound) ==
  [d \in Ctx |->
     IF d = c THEN s
     ELSE IF cfg[d].origin # <<c>> THEN cfg[d]
     ELSE IF rebound THEN [cfg[d] EXCEPT !.origin = <<>>]
     ELSE [cfg[d] EXCEPT !.config_data = s.config_data]]

\* the state after an operation of c that ended in machine m and left the
\* given stores
CommitStores(c, m, stk, rec, stores) ==
  /\ ~m.blocked
  /\ cfg' = stores
  /\ lockd' = m.lockd
  /\ cfgfile' = m.cfgfile
  /\ tgt' = [tgt EXCEPT ![c] = m.tgt]
  /\ stack' = [stack EXCEPT ![c] = stk]
  /\ acct' = [acct EXCEPT ![c] =
                Account(IF stack[c] = <<>> THEN [acct[c] EXCEPT !.got = FALSE, !.released = FALSE]
                        ELSE acct[c],
                        m.calls, 1)]
  /\ last' = [rec EXCEPT !.c = c, !.depth = Len(stack[c]), !.exc = m.exc, !.calls = m.calls,
                          !.cached = cfg[c].config_data,
                          !.ret = IF m.exc = "" THEN m.ret ELSE <<>>]

\* the state after an operation of c that ended in machine m
Commit(c, m, stk, rec) == CommitStores(c, m, stk, rec, Sharing(c, m.s, m.rebound))

\* a method that is not decorated: it runs in whatever session is open
Plain(c, m, rec) ==
  \E caught \in Catches(c) : Commit(c, m, Propagate(stack[c], m.exc, caught), rec)

\* ---------------------------------------------------------------- actions

\* with cfg.GetConfigManager(shared, forcelock): entering the block
Enter(c, shared, force) ==
  /\ BodyRunning(c) /\ Bounded(c)
  /\ Len(stack[c]) < MaxDepth
  /\ cfg[c].lock_count >= -MaxDrift
  /\ LET m == EnterCM(Mach(c), c, shared, force)
     IN \E caught \in Catches(c) :
          Commit(c, m,
                 IF m.exc = ""
                 THEN Append(stack[c], [shared |-> shared, force |-> force, exc |-> FALSE])
                 ELSE Propagate(stack[c], m.exc, caught),
                 [NoOp EXCEPT !.op = "Enter", !.shared = shared, !.force = force])

\* leaving the innermost block, normally or with the exception its body raised
Exit(c) ==
  /\ stack[c] # <<>>
  /\ LET fr == stack[c][Len(stack[c])]
         m == ExitCM([Mach(c) EXCEPT !.exc = IF fr.exc THEN "BodyError" ELSE ""], c, fr.shared)
     IN \E caught \in Catches(c) :
          Commit(c, m,
                 Propagate(SubSeq(stack[c], 1, Len(stack[c]) - 1), m.exc, caught),
                 [NoOp EXCEPT !.op = "Exit", !.shared = fr.shared, !.force = fr.force,
                              !.excIn = fr.exc])

\* the body of the innermost block raises
BodyRaise(c) ==
  /\ stack[c] # <<>> /\ BodyRunning(c)
  /\ stack' = [stack EXCEPT ![c][Len(stack[c])].exc = TRUE]
  /\ last' = [NoOp EXCEPT !.op = "BodyRaise", !.c = c, !.depth = Len(stack[c])]
  /\ UNCHANGED <<cfg, lockd, cfgfile, tgt, acct>>

\* OutDate(), called between sessions
OutDate(c) ==
  /\ stack[c] = <<>> /\ cfg[c].config_data # <<>>
  /\ cfg' = Sharing(c, [cfg[c] EXCEPT !.config_data = <<>>], TRUE)
  /\ tgt' = [tgt EXCEPT ![c] = IF @ = <<>> THEN <<>> ELSE <<[@[1] EXCEPT !.aliased = FALSE]>>]
  /\ last' = [NoOp EXCEPT !.op = "OutDate", !.c = c]
  /\ UNCHANGED <<lockd, cfgfile, stack, acct>>

\* a decorated method: its body between __enter__ and __exit__ of its own manager
Method(c, shared, opened, body, rec) ==
  \E caught \in Catches(c) :
    LET m == ExitCM(body, c, shared)
    IN Commit(c, m, Propagate(stack[c], m.exc, caught),
              [rec EXCEPT !.shared = shared,
                          !.opened = IF Runs(opened) THEN opened.s.config_data ELSE <<>>,
                          !.body = IF Runs(opened) THEN body.s.config_data ELSE <<>>])

GetInstanceInfo(c, i) ==
  /\ BodyRunning(c) /\ Bounded(c)
  /\ LET o == EnterCM(Mach(c), c, TRUE, FALSE)
     IN Method(c, TRUE, o, GetInstanceInfoBody(o, i), [NoOp EXCEPT !.op = "GetInstanceInfo"])

GetNodeInfo(c, n) ==
  /\ BodyRunning(c) /\ Bounded(c)
  /\ LET o == EnterCM(Mach(c), c, TRUE, FALSE)
     IN Method(c, TRUE, o, GetNodeInfoBody(o, n), [NoOp EXCEPT !.op = "GetNodeInfo"])

\* the caller edits the object it holds; while the store still holds the very
\* same object, the store's graph changes with it
EditTarget(c, v) ==
  /\ BodyRunning(c)
  /\ tgt[c] # <<>> /\ tgt[c][1].kind = "instance" /\ tgt[c][1].obj.admin_state # v
  /\ tgt' = [tgt EXCEPT ![c][1].obj.admin_state = v]
  /\ cfg' = IF tgt[c][1].aliased
            THEN Sharing(c, [cfg[c] EXCEPT
                               !.config_data[1].instances[tgt[c][1].uuid].admin_state = v],
                         FALSE)
            ELSE cfg
  /\ last' = [NoOp EXCEPT !.op = "EditTarget", !.c = c, !.depth = Len(stack[c])]
  /\ UNCHANGED <<lockd, cfgfile, stack, acct>>

\* the caller builds an Instance object the configuration has never held
NewTarget(c) ==
  /\ BodyRunning(c) /\ tgt[c] = <<>>
  /\ tgt' = [tgt EXCEPT ![c] =
               <<[kind |-> "instance", uuid |-> "i2", aliased |-> FALSE,
                  obj |-> [disks |-> <<>>, admin_state |-> "up", serial_no |-> 1]]>>]
  /\ last' = [NoOp EXCEPT !.op = "NewTarget", !.c = c, !.depth = Len(stack[c])]
  /\ UNCHANGED <<cfg, lockd, cfgfile, stack, acct>>

Update(c) ==
  /\ BodyRunning(c) /\ Bounded(c)
  /\ tgt[c] # <<>>
  /\ LET o == EnterCM(Mach(c), c, FALSE, FALSE)
     IN Method(c, FALSE, o, UpdateBody(o), [NoOp EXCEPT !.op = "Update"])

RemoveNodeGroup(c, grp) ==
  /\ BodyRunning(c) /\ Bounded(c)
  /\ LET o == EnterCM(Mach(c), c, FALSE, FALSE)
     IN Method(c, FALSE, o, RemoveNodeGroupBody(o, grp),
               [NoOp EXCEPT !.op = "RemoveNodeGroup", !.arg = <<grp>>])

\* the disk object a caller passes: its iv_name is not set to a position yet
NewDisk(d) == [uuid |-> d, iv_name |-> IvName(-1)]

\* the index arguments callers pass: None or an integer
IdxInputs == {<<>>} \cup {<<k>> : k \in -1 .. MaxIdx}

DiskBounded == lockd.data.cluster.serial_no < MaxDiskSerial

AddInstanceDisk(c, inst, d, idx) ==
  /\ BodyRunning(c) /\ DiskBounded
  /\ LET o == EnterCM(Mach(c), c, FALSE, FALSE)
     IN Method(c, FALSE, o, AddInstanceDiskBody(o, inst, NewDisk(d), idx),
               [NoOp EXCEPT !.op = "AddInstanceDisk", !.arg = <<inst, d, idx>>])

RemoveInstanceDisk(c, inst, d) ==
  /\ BodyRunning(c) /\ DiskBounded
  /\ LET o == EnterCM(Mach(c), c, FALSE, FALSE)
     IN Method(c, FALSE, o, RemoveInstanceDiskBody(o, inst, d),
               [NoOp EXCEPT !.op = "RemoveInstanceDisk", !.arg = <<inst, d>>])

\* -------------------------------------------------------- instance status

\* _SetInstanceStatus with the comparison left out: every call counts as a change
SetInstanceStatus_AlwaysBump(m, i, status, disks_active, admin_state_source) ==
  IF ~Runs(m) THEN m
  ELSE LET g == ConfigData(m) IN
    IF i \notin DOMAIN g.instances THEN Raise(m, "ConfigurationError")
    ELSE LET inst == g.instances[i]
             st == IF status = <<>> THEN inst.admin_state ELSE status[1]
             da == IF disks_active = <<>> THEN inst.disks_active ELSE disks_active[1]
             src == IF admin_state_source = <<>> THEN inst.admin_state_source
                    ELSE admin_state_source[1]
             new == [inst EXCEPT !.admin_state = st, !.disks_active = da,
                                 !.admin_state_source = src, !.serial_no = @ + 1]
         IN [SetConfigData(m, [g EXCEPT !.instances[i] = new]) EXCEPT !.ret = <<new>>]

\* _SetInstanceStatus(inst_uuid, status, disks_active, admin_state_source);
\* an argument of None (<<>>) stands for the instance's current value
SetInstanceStatus(m, i, status, disks_active, admin_state_source) ==
  IF ~Runs(m) THEN m
  ELSE LET g == ConfigData(m) IN
    IF i \notin DOMAIN g.instances THEN Raise(m, "ConfigurationError")
    ELSE LET inst == g.instances[i]
             st == IF status = <<>> THEN inst.admin_state ELSE status[1]
             da == IF disks_active = <<>> THEN inst.disks_active ELSE disks_active[1]
             src == IF admin_state_source = <<>> THEN inst.admin_state_source
                    ELSE admin_state_source[1]
         IN IF st \notin {"up", "down", "offline"} THEN Raise(m, "AssertionError")
            ELSE IF inst.admin_state # st \/ inst.disks_active # da
                    \/ inst.admin_state_source # src
            THEN LET new == [inst EXCEPT !.admin_state = st, !.disks_active = da,
                                         !.admin_state_source = src, !.serial_no = @ + 1]
                 IN [SetConfigData(m, [g EXCEPT !.instances[i] = new]) EXCEPT !.ret = <<new>>]
            ELSE [m EXCEPT !.ret = <<inst>>]

\* the arguments each Mark* method passes on
MarkArgs(op) ==
  CASE op = "MarkInstanceUp" -> << <<"up">>, <<TRUE>>, <<"admin">> >>
    [] op = "MarkInstanceOffline" -> << <<"offline">>, <<FALSE>>, <<"admin">> >>
    [] op = "MarkInstanceDown" -> << <<"down">>, <<>>, <<"admin">> >>
    [] op = "MarkInstanceUserDown" -> << <<"down">>, <<>>, <<"user">> >>
    [] op = "MarkInstanceDisksActive" -> << <<>>, <<TRUE>>, <<>> >>
    [] op = "MarkInstanceDisksInactive" -> << <<>>, <<FALSE>>, <<>> >>

\* the body of a Mark* method; MarkInstanceUserDown drops the instance it gets
\* back, the others return it
MarkInstanceBody(m, op, i) ==
  LET a == MarkArgs(op)
      m1 == SetInstanceStatus(m, i, a[1], a[2], a[3])
  IN IF op = "MarkInstanceUserDown" THEN [m1 EXCEPT !.ret = <<>>] ELSE m1

\* RenameInstance(inst_uuid, new_name); the instances here have no file disks
\* whose paths would follow the name
RenameInstanceBody(m, i, name) ==
  IF ~Runs(m) THEN m
  ELSE LET g == ConfigData(m) IN
    IF i \notin DOMAIN g.instances THEN Raise(m, "ConfigurationError")
    ELSE SetConfigData(m, [g EXCEPT !.instances[i].name = name,
                                    !.cluster.serial_no = @ + 1])

\* SetInstanceDiskTemplate(inst_uuid, disk_template)
SetInstanceDiskTemplateBody(m, i, template) ==
  IF ~Runs(m) THEN m
  ELSE LET g == ConfigData(m) IN
    IF i \notin DOMAIN g.instances THEN Raise(m, "ConfigurationError")
    ELSE SetConfigData(m, [g EXCEPT !.instances[i].disk_template = template])

\* SetInstancePrimaryNode(inst_uuid, target_node_uuid): an unknown instance is
\* looked up as None, and setting an attribute of None fails
SetInstancePrimaryNodeBody(m, i, n) ==
  IF ~Runs(m) THEN m
  ELSE LET g == ConfigData(m) IN
    IF i \notin DOMAIN g.instances THEN Raise(m, "AttributeError")
    ELSE SetConfigData(m, [g EXCEPT !.instances[i].primary_node = n])

\* --------------------------------------------------------- candidate pool

\* the loop of MaintainCandidatePool without its break
RECURSIVE PromoteLoop_NoBreak(_, _, _, _, _, _, _)
PromoteLoop_NoBreak(g, node_list, k, mc_now, mc_max, mod_list, exceptions) ==
  IF k > Len(node_list) THEN [g |-> g, mod_list |-> mod_list, exc |-> ""]
  ELSE LET uuid == node_list[k]
           node == g.nodes[uuid]
       IN IF node.master_candidate \/ node.offline \/ node.drained
          THEN PromoteLoop_NoBreak(g, node_list, k + 1, mc_now, mc_max, mod_list, exceptions)
          ELSE IF exceptions = <<>> THEN [g |-> g, mod_list |-> mod_list, exc |-> "TypeError"]
          ELSE IF uuid \in exceptions[1] \/ ~node.master_capable
          THEN PromoteLoop_NoBreak(g, node_list, k + 1, mc_now, mc_max, mod_list, exceptions)
          ELSE PromoteLoop_NoBreak([g EXCEPT !.nodes[uuid].master_candidate = TRUE,
                                             !.nodes[uuid].serial_no = @ + 1],
                                   node_list, k + 1, mc_now + 1, mc_max,
                                   Append(mod_list, uuid), exceptions)

\* the loop of MaintainCandidatePool over the shuffled node list; the test
\* "node.uuid in exception_node_uuids" is reached only for a node that is no
\* candidate, not offline and not drained, and fails on None
RECURSIVE PromoteLoop(_, _, _, _, _, _, _)
PromoteLoop(g, node_list, k, mc_now, mc_max, mod_list, exceptions) ==
  IF k > Len(node_list) \/ mc_now >= mc_max
  THEN [g |-> g, mod_list |-> mod_list, exc |-> ""]
  ELSE LET uuid == node_list[k]
           node == g.nodes[uuid]
       IN IF node.master_candidate \/ node.offline \/ node.drained
          THEN PromoteLoop(g, node_list, k + 1, mc_now, mc_max, mod_list, exceptions)
          ELSE IF exceptions = <<>> THEN [g |-> g, mod_list |-> mod_list, exc |-> "TypeError"]
          ELSE IF uuid \in exceptions[1] \/ ~node.master_capable
          THEN PromoteLoop(g, node_list, k + 1, mc_now, mc_max, mod_list, exceptions)
          ELSE PromoteLoop([g EXCEPT !.nodes[uuid].master_candidate = TRUE,
                                     !.nodes[uuid].serial_no = @ + 1],
                           node_list, k + 1, mc_now + 1, mc_max,
                           Append(mod_list, uuid), exceptions)

\* MaintainCandidatePool(exception_node_uuids); node_list is the node keys as
\* random.shuffle left them; the nodes of the returned list are given by UUID
MaintainCandidatePoolBody(m, exceptions, node_list) ==
  IF ~Runs(m) THEN m
  ELSE LET g == ConfigData(m)
           stats == UnlockedGetMasterCandidateStats(g, exceptions)
       IN IF stats[1] < stats[2]
          THEN LET r == PromoteLoop(g, node_list, 1, stats[1], stats[2], <<>>, exceptions)
                   g1 == IF r.mod_list # <<>>
                         THEN [r.g EXCEPT !.cluster.serial_no = @ + 1]
                         ELSE r.g
               IN IF r.exc # "" THEN Raise(SetConfigData(m, r.g), r.exc)
                  ELSE [SetConfigData(m, g1) EXCEPT !.ret = <<r.mod_list>>]
          ELSE [m EXCEPT !.ret = << <<>> >>]

\* ------------------------------------------------------------ reservations

\* a call of a method of self._wconfd that reserves res: without a client the
\* attribute lookup on None fails
WConfdReserve(m, name, res) ==
  IF ~m.s.wconfd THEN Raise(m, "AttributeError")
  ELSE [Call(m, name) EXCEPT !.lockd.reserved = @ \cup res]

\* GenerateMAC(net_uuid, _ec_id); mac is the address LockD makes up
GenerateMACBody(m, c, net, mac) ==
  LET m1 == WConfdReserve(m, "GenerateMAC", {<<c, "mac", mac>>})
  IN IF m1.exc # "" THEN m1 ELSE [m1 EXCEPT !.ret = <<mac>>]

\* ReserveMAC(mac, _ec_id)
ReserveMACBody(m, c, mac) == WConfdReserve(m, "ReserveMAC", {<<c, "mac", mac>>})

\* ReleaseIp(net_uuid, address, _ec_id): nothing happens without a network
ReleaseIpBody(m, c, net, address) ==
  IF net = <<>> THEN m
  ELSE IF m.s.offline THEN Raise(m, "ProgrammerError")
  ELSE WConfdReserve(m, "ReleaseIp", {<<c, "release", address>>})

\* GenerateIp(net_uuid, _ec_id)
GenerateIpBody(m, c, net, address) ==
  IF m.s.offline THEN Raise(m, "ProgrammerError")
  ELSE LET m1 == WConfdReserve(m, "GenerateIp", {<<c, "ip", address>>})
       IN IF m1.exc # "" THEN m1 ELSE [m1 EXCEPT !.ret = <<address>>]

\* ReserveIp(net_uuid, address, _ec_id, check)
ReserveIpBody(m, c, net, address) ==
  IF m.s.offline THEN Raise(m, "ProgrammerError")
  ELSE WConfdReserve(m, "ReserveIp", {<<c, "ip", address>>})

\* ReserveLV(lv_name, _ec_id)
ReserveLVBody(m, c, lv_name) == WConfdReserve(m, "ReserveLV", {<<c, "lv", lv_name>>})

\* GenerateDRBDSecret(_ec_id)
GenerateDRBDSecretBody(m, c, secret) ==
  LET m1 == WConfdReserve(m, "GenerateDRBDSecret", {<<c, "secret", secret>>})
  IN IF m1.exc # "" THEN m1 ELSE [m1 EXCEPT !.ret = <<secret>>]

\* AllocateDRBDMinor(node_uuids, inst_uuid)
AllocateDRBDMinorBody(m, c, inst) ==
  IF m.s.offline THEN Raise(m, "ProgrammerError")
  ELSE LET m1 == WConfdReserve(m, "AllocateDRBDMinor", {<<c, "minor", inst>>})
       IN IF m1.exc # "" THEN m1 ELSE [m1 EXCEPT !.ret = <<inst>>]

\* ComputeDRBDMap(), the body inside its exclusive session
ComputeDRBDMapBody(m) ==
  IF ~Runs(m) THEN m
  ELSE IF m.s.offline THEN Raise(m, "ProgrammerError")
  ELSE LET m1 == WConfdReserve(m, "ComputeDRBDMap", {})
       IN IF m1.exc # "" THEN m1
          ELSE [m1 EXCEPT !.ret = <<{x \in m1.lockd.reserved : x[2] = "minor"}>>]

\* ------------------------------------------------------------------ ports

\* AddTcpUdpPort(port); port is <<"int", n>> or a value of another type
AddTcpUdpPortBody(m, port) ==
  IF ~Runs(m) THEN m
  ELSE IF port[1] # "int" THEN Raise(m, "ProgrammerError")
  ELSE SetConfigData(m, [ConfigData(m) EXCEPT !.cluster.tcpudp_port_pool = @ \cup {port[2]}])

\* AllocatePort that takes the next port although the pool has one
AllocatePortBody_PoolLast(m, popped) ==
  IF ~Runs(m) THEN m
  ELSE LET g == ConfigData(m)
           port == g.cluster.highest_used_port + 1
       IN IF port >= LastDrbdPort THEN Raise(m, "ConfigurationError")
          ELSE [SetConfigData(m, [g EXCEPT !.cluster.highest_used_port = port])
                  EXCEPT !.ret = <<port>>]

\* AllocatePort(); popped is the element set.pop() hands out when the pool is
\* not empty
AllocatePortBody(m, popped) ==
  IF ~Runs(m) THEN m
  ELSE LET g == ConfigData(m) IN
    IF g.cluster.tcpudp_port_pool # {}
    THEN [SetConfigData(m, [g EXCEPT !.cluster.tcpudp_port_pool = @ \ {popped}])
            EXCEPT !.ret = <<popped>>]
    ELSE LET port == g.cluster.highest_used_port + 1
         IN IF port >= LastDrbdPort THEN Raise(m, "ConfigurationError")
            ELSE [SetConfigData(m, [g EXCEPT !.cluster.highest_used_port = port])
                    EXCEPT !.ret = <<port>>]

\* ------------------------------------------------------- nodes and groups

\* _UnlockedAddNode(node, ec_id) once the node has its UUID
StoreNode(m, uuid, grp) ==
  LET r == UnlockedAddNodeToGroup(ConfigData(m), uuid, grp)
  IN IF r.exc # "" THEN Raise(m, r.exc)
     ELSE [SetConfigData(m,
             [r.g EXCEPT !.nodes = Put(@, uuid, [group |-> grp, serial_no |-> 1]),
                         !.cluster.serial_no = @ + 1]) EXCEPT !.ret = <<>>]

\* _UnlockedAddNode(node, ec_id) for a node that comes with a UUID
UnlockedAddNode(m, node) ==
  IF ~Runs(m) THEN m
  ELSE IF node.uuid \in AllIDsAndTemporary(m) THEN Raise(m, "ConfigurationError")
  ELSE StoreNode(m, node.uuid, node.group)

\* what follows _EnsureUUID in an add: nothing when it raised
AfterEnsureUUID(m, stored) == IF m.exc # "" THEN m ELSE stored

\* _UnlockedAddNode(node, ec_id) for a node without a UUID
UnlockedAddNodeNoUUID(m, grp, ec, drawn) ==
  IF ~Runs(m) THEN m
  ELSE AfterEnsureUUID(GenerateUniqueIDOf(m, ec, drawn),
                       StoreNode(GenerateUniqueIDOf(m, ec, drawn), drawn, grp))

\* _UnlockedLookupNodeGroup(target) for a target that is not None: the UUID
\* found, if any
UnlockedLookupNodeGroup(g, target) ==
  IF target \in DOMAIN g.nodegroups THEN {target}
  ELSE {u \in DOMAIN g.nodegroups : g.nodegroups[u].name = target}

\* _UnlockedAddNodeGroup(group, ec_id, check_uuid) once the group has its UUID
StoreNodeGroup(m, uuid, name) ==
  IF UnlockedLookupNodeGroup(ConfigData(m), name) # {} THEN Raise(m, "OpPrereqError")
  ELSE [SetConfigData(m,
          [ConfigData(m) EXCEPT
             !.nodegroups = Put(@, uuid, [name |-> name, serial_no |-> 1, members |-> <<>>]),
             !.cluster.serial_no = @ + 1]) EXCEPT !.ret = <<>>]

\* _UnlockedAddNodeGroup(group, ec_id, check_uuid=True); uuid is <<>> for a
\* group without a UUID
UnlockedAddNodeGroup(m, uuid, name, ec, drawn) ==
  IF ~Runs(m) THEN m
  ELSE AfterEnsureUUID(EnsureUUID(m, uuid, ec, drawn),
                       StoreNodeGroup(EnsureUUID(m, uuid, ec, drawn),
                                      IF uuid = <<>> THEN drawn ELSE uuid[1], name))

\* _UnlockedAddNetwork(net, ec_id, check_uuid=True)
UnlockedAddNetwork(m, uuid, ec, drawn) ==
  IF ~Runs(m) THEN m
  ELSE AfterEnsureUUID(EnsureUUID(m, uuid, ec, drawn),
         [SetConfigData(EnsureUUID(m, uuid, ec, drawn),
            [ConfigData(m) EXCEPT
               !.networks = Put(@, IF uuid = <<>> THEN drawn ELSE uuid[1],
                                [serial_no |-> 1, reservations |-> {}]),
               !.cluster.serial_no = @ + 1]) EXCEPT !.ret = <<>>])

\* _UnlockedDropECReservations(_ec_id): every reservation manager drops the
\* context, and online LockD drops what it holds for the caller
UnlockedDropECReservations_WConfdOnly(m, c, ec) ==
  IF m.s.offline THEN m
  ELSE [Call(m, "DropAllReservations") EXCEPT !.lockd.reserved = {x \in @ : x[1] # c}]

UnlockedDropECReservations(m, c, ec) ==
  UnlockedDropECReservations_WConfdOnly(
    [m EXCEPT !.s.temporary_ids = RmDropECReservations(@, ec)], c, ec)

\* _UnlockedRemoveNodeFromGroup(node): an unknown group is logged and then
\* looked up all the same; a node its group does not list is only logged
UnlockedRemoveNodeFromGroup(g, n) ==
  LET grp == g.nodes[n].group
  IN IF grp \notin DOMAIN g.nodegroups THEN [g |-> g, exc |-> "KeyError"]
     ELSE IF n \notin ListElems(g.nodegroups[grp].members) THEN [g |-> g, exc |-> ""]
     ELSE [g |-> [g EXCEPT !.nodegroups[grp].members = ListRemove(@, n)], exc |-> ""]

\* RemoveNode(node_uuid)
RemoveNodeBody(m, n) ==
  IF ~Runs(m) THEN m
  ELSE LET g == ConfigData(m) IN
    IF n \notin DOMAIN g.nodes THEN Raise(m, "ConfigurationError")
    ELSE LET r == UnlockedRemoveNodeFromGroup(g, n)
         IN IF r.exc # "" THEN Raise(m, r.exc)
            ELSE SetConfigData(m, [r.g EXCEPT !.nodes = Del(@, n),
                                              !.cluster.serial_no = @ + 1])

\* the first loop of AssignGroupNodes: every modification is resolved against
\* the graph as it is before any change; res collects <<node, old, new>>
RECURSIVE ResolveMods(_, _, _, _)
ResolveMods(g, mods, k, res) ==
  IF k > Len(mods) THEN [res |-> res, exc |-> ""]
  ELSE LET n == mods[k][1]
           new == mods[k][2]
       IN IF n \notin DOMAIN g.nodes THEN [res |-> res, exc |-> "ConfigurationError"]
          ELSE IF g.nodes[n].group = new THEN ResolveMods(g, mods, k + 1, res)
          ELSE IF g.nodes[n].group \notin DOMAIN g.nodegroups
          THEN [res |-> res, exc |-> "ConfigurationError"]
          ELSE IF new \notin DOMAIN g.nodegroups
          THEN [res |-> res, exc |-> "ConfigurationError"]
          ELSE IF n \notin ListElems(g.nodegroups[g.nodes[n].group].members)
          THEN [res |-> res, exc |-> "AssertionError"]
          ELSE IF n \in ListElems(g.nodegroups[new].members)
          THEN [res |-> res, exc |-> "AssertionError"]
          ELSE ResolveMods(g, mods, k + 1, Append(res, <<n, g.nodes[n].group, new>>))

\* the second loop of AssignGroupNodes: the resolved modifications are applied
\* one after the other
RECURSIVE ApplyMods(_, _, _)
ApplyMods(g, res, k) ==
  IF k > Len(res) THEN g
  ELSE LET n == res[k][1]
           old == res[k][2]
           new == res[k][3]
           g1 == [g EXCEPT !.nodes[n].group = new]
           g2 == IF n \in ListElems(g1.nodegroups[old].members)
                 THEN [g1 EXCEPT !.nodegroups[old].members = ListRemove(@, n)]
                 ELSE g1
           g3 == IF n \notin ListElems(g2.nodegroups[new].members)
                 THEN [g2 EXCEPT !.nodegroups[new].members = Append(@, n)]
                 ELSE g2
       IN ApplyMods(g3, res, k + 1)

\* AssignGroupNodes(mods): after the two loops every node and group object of
\* the resolved list gets its serial number raised once, and the cluster's
\* is raised whatever the list
AssignGroupNodesBody(m, mods) ==
  IF ~Runs(m) THEN m
  ELSE LET g == ConfigData(m)
           r == ResolveMods(g, mods, 1, <<>>)
           g1 == ApplyMods(g, r.res, 1)
           ns == {r.res[k][1] : k \in DOMAIN r.res}
           gs == {r.res[k][2] : k \in DOMAIN r.res} \cup {r.res[k][3] : k \in DOMAIN r.res}
       IN IF r.exc # "" THEN Raise(m, r.exc)
          ELSE SetConfigData(m,
                 [g1 EXCEPT
                    !.nodes = [n \in DOMAIN @ |->
                                 IF n \in ns THEN [@[n] EXCEPT !.serial_no = @ + 1] ELSE @[n]],
                    !.nodegroups = [u \in DOMAIN @ |->
                                 IF u \in gs THEN [@[u] EXCEPT !.serial_no = @ + 1] ELSE @[u]],
                    !.cluster.serial_no = @ + 1])

\* the NICs of an instance (a graph that models no NIC has instances without)
Nics(inst) == IF "nics" \in DOMAIN inst THEN inst.nics ELSE <<>>

\* network.AddressPool(nobj).Release(address): the address is free again
Release(nobj, address) == [nobj EXCEPT !.reservations = @ \ {address}]

\* _UnlockedCommitIp(RELEASE_ACTION, net_uuid, address) on graph g
UnlockedCommitIpRelease(r, net_uuid, address) ==
  IF r.exc # "" THEN r
  ELSE IF net_uuid \notin DOMAIN r.g.networks THEN [r EXCEPT !.exc = "ProgrammerError"]
  ELSE [r EXCEPT !.g.networks[net_uuid] = Release(@, address)]

\* the loop over instance.nics of RemoveInstance, from NIC k on
RECURSIVE ReleaseNicIps(_, _, _)
ReleaseNicIps(r, nics, k) ==
  IF k > Len(nics) THEN r
  ELSE ReleaseNicIps(IF nics[k].network # <<>> /\ nics[k].ip # <<>>
                     THEN UnlockedCommitIpRelease(r, nics[k].network[1], nics[k].ip[1])
                     ELSE r,
                     nics, k + 1)

\* variant of RemoveInstance that leaves the addresses of the NICs reserved
RemoveInstanceBody_KeepIps(m, i) ==
  IF ~Runs(m) THEN m
  ELSE LET g == ConfigData(m) IN
    IF i \notin DOMAIN g.instances THEN Raise(m, "ConfigurationError")
    ELSE LET inst == g.instances[i]
             g1 == IF "network_port" \in DOMAIN inst /\ inst.network_port # <<>>
                   THEN [g EXCEPT !.cluster.tcpudp_port_pool = @ \cup {inst.network_port[1]}]
                   ELSE g
         IN SetConfigData(m, [g1 EXCEPT !.instances = Del(@, i),
                                        !.cluster.serial_no = @ + 1])

\* RemoveInstance(inst_uuid): a network port the instance has goes back to the
\* pool (getattr(inst, "network_port", None): an instance without the attribute
\* has none; None is <<>>, the port p is <<p>>); the addresses of its NICs are
\* released; the disks of the instance stay in the disk table
RemoveInstanceBody(m, i) ==
  IF ~Runs(m) THEN m
  ELSE LET g == ConfigData(m) IN
    IF i \notin DOMAIN g.instances THEN Raise(m, "ConfigurationError")
    ELSE LET inst == g.instances[i]
             g1 == IF "network_port" \in DOMAIN inst /\ inst.network_port # <<>>
                   THEN [g EXCEPT !.cluster.tcpudp_port_pool = @ \cup {inst.network_port[1]}]
                   ELSE g
             r == ReleaseNicIps([g |-> g1, exc |-> ""], Nics(inst), 1)
         IN IF r.exc # "" THEN Raise(SetConfigData(m, r.g), r.exc)
            ELSE SetConfigData(m, [r.g EXCEPT !.instances = Del(@, i),
                                              !.cluster.serial_no = @ + 1])

\* _AllMACs()
AllMACs(g) ==
  UNION {{g.instances[i].nics[k].mac : k \in DOMAIN g.instances[i].nics} :
           i \in DOMAIN g.instances}

\* self._wconfd.AddInstance(instance.ToDict(), context): LockD stores the instance
WConfdAddInstance(m, instance) ==
  IF ~m.s.wconfd THEN Raise(m, "AttributeError")
  ELSE [Call(m, "AddInstance") EXCEPT
          !.lockd.data.instances = Put(@, instance.uuid, instance)]

\* AddInstance(instance, _ec_id): not a synchronized method, it looks at the
\* graph the store holds at the moment, which is None after OutDate()
AddInstanceBody(m, instance) ==
  IF m.s.config_data = <<>> THEN Raise(m, "AttributeError")
  ELSE IF \E k \in DOMAIN instance.nics : instance.nics[k].mac \in AllMACs(ConfigData(m))
  THEN Raise(m, "ConfigurationError")
  ELSE IF instance.uuid = "" \/ instance.uuid \in AllIDs(ConfigData(m))
  THEN Raise(m, "ConfigurationError")
  ELSE LET m1 == WConfdAddInstance(m, [instance EXCEPT !.serial_no = 1])
       IN IF m1.exc # "" THEN m1
          ELSE [m1 EXCEPT !.s.config_data = <<>>, !.rebound = TRUE,
                          !.tgt = IF @ = <<>> THEN <<>> ELSE <<[@[1] EXCEPT !.aliased = FALSE]>>]

RemoveInstance(c, i) ==
  /\ BodyRunning(c) /\ DiskBounded
  /\ LET o == EnterCM(Mach(c), c, FALSE, FALSE)
     IN Method(c, FALSE, o, RemoveInstanceBody(o, i),
               [NoOp EXCEPT !.op = "RemoveInstance", !.arg = <<i>>])

\* ---------------------------------------------------------- specifications

InitStoresWith(d0, stores) ==
  /\ cfg = stores
  /\ lockd = [data |-> d0, lock |-> [c \in Ctx |-> "none"], reserved |-> {}]
  /\ cfgfile = [data |-> d0, id |-> 1]
  /\ stack = [c \in Ctx |-> <<>>]
  /\ tgt = [c \in Ctx |-> <<>>]
  /\ acct = [c \in Ctx |-> [held |-> FALSE, rel |-> 0, got |-> FALSE, released |-> FALSE]]
  /\ last = NoOp

InitStores(d0, offl) == InitStoresWith(d0, [c \in Ctx |-> NewStore(offl[c])])

\* sessions of one execution context, whose store is online or offline
Init ==
  \E d0 \in {NormalDict, LegacyDict} : \E offl \in BOOLEAN :
    InitStores(d0, [c \in Ctx |-> IF c = "job1" THEN offl ELSE FALSE])

Next ==
  \E c \in {"job1"} :
    \/ \E shared \in BOOLEAN, force \in BOOLEAN : Enter(c, shared, force)
    \/ Exit(c)
    \/ BodyRaise(c)
    \/ OutDate(c)
    \/ \E n \in NodeIds : GetNodeInfo(c, n)
    \/ \E grp \in GroupIds : RemoveNodeGroup(c, grp)

Spec == Init /\ [][Next]_vars

\* two jobs, each with its own online store, calling the decorated methods
InitConc == InitStores(NormalDict, [c \in Ctx |-> FALSE])

NextConc ==
  \E c \in Ctx :
    \/ \E i \in InstIds : GetInstanceInfo(c, i)
    \/ \E v \in AdminStates : EditTarget(c, v)
    \/ NewTarget(c)
    \/ Update(c)
    \/ OutDate(c)

SpecConc == InitConc /\ [][NextConc]_vars

\* one job adding disks to and removing disks from two instances
InitDisk == InitStores(DiskDict, [c \in Ctx |-> FALSE])

NextDisk ==
  \E c \in {"job1"} : \E inst \in InstIds, d \in DiskIds :
    \/ \E idx \in IdxInputs : AddInstanceDisk(c, inst, d, idx)
    \/ RemoveInstanceDisk(c, inst, d)

SpecDisk == InitDisk /\ [][NextDisk]_vars

\* ------------------------------------------------------- node and group calls

GroupBounded == lockd.data.cluster.serial_no < MaxGroupSerial

\* AddNode(node, ec_id)
AddNode(c, n, grp) ==
  /\ BodyRunning(c) /\ GroupBounded
  /\ LET o == EnterCM(Mach(c), c, FALSE, FALSE)
     IN Method(c, FALSE, o, UnlockedAddNode(o, [uuid |-> n, group |-> grp]),
               [NoOp EXCEPT !.op = "AddNode", !.arg = <<n, grp>>])

RemoveNode(c, n) ==
  /\ BodyRunning(c) /\ GroupBounded
  /\ LET o == EnterCM(Mach(c), c, FALSE, FALSE)
     IN Method(c, FALSE, o, RemoveNodeBody(o, n),
               [NoOp EXCEPT !.op = "RemoveNode", !.arg = <<n>>])

AssignGroupNodes(c, mods) ==
  /\ BodyRunning(c) /\ GroupBounded
  /\ LET o == EnterCM(Mach(c), c, FALSE, FALSE)
     IN Method(c, FALSE, o, AssignGroupNodesBody(o, mods),
               [NoOp EXCEPT !.op = "AssignGroupNodes", !.arg = mods])

\* one job adding, removing and regrouping nodes of a cluster of three groups
GroupNodeIds == NodeIds \cup {"n2"}

ManyGroupIds == GroupIds \cup {"g3"}

GroupDict ==
  [NormalDict EXCEPT !.nodegroups = [u \in ManyGroupIds |-> [serial_no |-> 1]]]

\* the modification lists a caller may pass: (node, new group) pairs, the same
\* node allowed more than once
RECURSIVE SeqsUpTo(_, _)
SeqsUpTo(S, k) ==
  IF k = 0 THEN {<<>>}
  ELSE LET shorter == SeqsUpTo(S, k - 1)
       IN shorter \cup {Append(q, x) : q \in shorter, x \in S}

ModLists == SeqsUpTo(GroupNodeIds \X ManyGroupIds, MaxMods)

InitGroups == InitStores(GroupDict, [c \in Ctx |-> FALSE])

NextGroups ==
  \E c \in {"job1"} :
    \/ \E n \in GroupNodeIds, grp \in ManyGroupIds : AddNode(c, n, grp)
    \/ \E n \in GroupNodeIds : RemoveNode(c, n)
    \/ \E mods \in ModLists : AssignGroupNodes(c, mods)

SpecGroups == InitGroups /\ [][NextGroups]_vars

\* ------------------------------------------------------------- port calls

\* the ports callers hand back, within the range and past it
PortInputs == 1 .. LastDrbdPort

PortArgs == {<<"int", p>> : p \in PortInputs} \cup {<<"str", "ssh">>}

AddTcpUdpPort(c, port) ==
  /\ BodyRunning(c)
  /\ LET o == EnterCM(Mach(c), c, FALSE, FALSE)
     IN Method(c, FALSE, o, AddTcpUdpPortBody(o, port),
               [NoOp EXCEPT !.op = "AddTcpUdpPort", !.arg = <<port>>])

\* set.pop() may hand out any element of the pool
AllocatePort(c, popped) ==
  /\ BodyRunning(c)
  /\ LET o == EnterCM(Mach(c), c, FALSE, FALSE)
     IN /\ IF Runs(o) /\ ConfigData(o).cluster.tcpudp_port_pool # {}
           THEN popped \in ConfigData(o).cluster.tcpudp_port_pool
           ELSE popped = 0
        /\ Method(c, FALSE, o, AllocatePortBody(o, popped), [NoOp EXCEPT !.op = "AllocatePort"])

\* a cluster that has two ports left below the end of the range; instance i1
\* holds the highest port handed out so far, instance i2 has no port
PortDict ==
  [DiskDict EXCEPT
     !.cluster = [serial_no |-> 1, master_node |-> "n1",
                  highest_used_port |-> LastDrbdPort - 3, tcpudp_port_pool |-> {}],
     !.instances = [i \in InstIds |->
                      [disks |-> <<>>, admin_state |-> "up", serial_no |-> 1,
                       network_port |-> IF i = "i1" THEN <<LastDrbdPort - 3>> ELSE <<>>]]]

InitPorts == InitStores(PortDict, [c \in Ctx |-> FALSE])

NextPorts ==
  \E c \in {"job1"} :
    \/ \E port \in PortArgs : AddTcpUdpPort(c, port)
    \/ \E popped \in {0} \cup PortInputs : AllocatePort(c, popped)
    \/ \E inst \in InstIds : RemoveInstance(c, inst)

SpecPorts == InitPorts /\ [][NextPorts]_vars

\* ----------------------------------------------------- instance status calls

MarkOps ==
  {"MarkInstanceUp", "MarkInstanceOffline", "MarkInstanceDown", "MarkInstanceUserDown",
   "MarkInstanceDisksActive", "MarkInstanceDisksInactive"}

MarkInstance(c, op, i) ==
  /\ BodyRunning(c) /\ Bounded(c)
  /\ LET o == EnterCM(Mach(c), c, FALSE, FALSE)
     IN Method(c, FALSE, o, MarkInstanceBody(o, op, i), [NoOp EXCEPT !.op = op, !.arg = <<i>>])

MarkInstanceUp(c, i) == MarkInstance(c, "MarkInstanceUp", i)

MarkInstanceOffline(c, i) == MarkInstance(c, "MarkInstanceOffline", i)

MarkInstanceDown(c, i) == MarkInstance(c, "MarkInstanceDown", i)

MarkInstanceUserDown(c, i) == MarkInstance(c, "MarkInstanceUserDown", i)

MarkInstanceDisksActive(c, i) == MarkInstance(c, "MarkInstanceDisksActive", i)

MarkInstanceDisksInactive(c, i) == MarkInstance(c, "MarkInstanceDisksInactive", i)

RenameInstance(c, i, name) ==
  /\ BodyRunning(c) /\ Bounded(c)
  /\ LET o == EnterCM(Mach(c), c, FALSE, FALSE)
     IN Method(c, FALSE, o, RenameInstanceBody(o, i, name),
               [NoOp EXCEPT !.op = "RenameInstance", !.arg = <<i, name>>])

SetInstanceDiskTemplate(c, i, template) ==
  /\ BodyRunning(c) /\ Bounded(c)
  /\ LET o == EnterCM(Mach(c), c, FALSE, FALSE)
     IN Method(c, FALSE, o, SetInstanceDiskTemplateBody(o, i, template),
               [NoOp EXCEPT !.op = "SetInstanceDiskTemplate", !.arg = <<i, template>>])

SetInstancePrimaryNode(c, i, n) ==
  /\ BodyRunning(c) /\ Bounded(c)
  /\ LET o == EnterCM(Mach(c), c, FALSE, FALSE)
     IN Method(c, FALSE, o, SetInstancePrimaryNodeBody(o, i, n),
               [NoOp EXCEPT !.op = "SetInstancePrimaryNode", !.arg = <<i, n>>])

\* a cluster whose instance i1 is down with inactive disks; i2 does not exist
StatusDict ==
  [NormalDict EXCEPT
     !.instances = [i \in {"i1"} |->
                      [disks |-> <<>>, admin_state |-> "down", disks_active |-> FALSE,
                       admin_state_source |-> "admin", serial_no |-> 1, name |-> "web",
                       disk_template |-> "plain", primary_node |-> "n1"]]]

InstNames == {"web", "db"}

DiskTemplates == {"plain", "drbd"}

InitStatus == InitStores(StatusDict, [c \in Ctx |-> FALSE])

NextStatus ==
  \E c \in {"job1"} : \E i \in InstIds :
    \/ MarkInstanceUp(c, i)
    \/ MarkInstanceOffline(c, i)
    \/ MarkInstanceDown(c, i)
    \/ MarkInstanceUserDown(c, i)
    \/ MarkInstanceDisksActive(c, i)
    \/ MarkInstanceDisksInactive(c, i)
    \/ \E name \in InstNames : RenameInstance(c, i, name)
    \/ \E template \in DiskTemplates : SetInstanceDiskTemplate(c, i, template)
    \/ \E n \in GroupNodeIds : SetInstancePrimaryNode(c, i, n)

SpecStatus == InitStatus /\ [][NextStatus]_vars

\* ----------------------------------------------------- candidate pool calls

PoolNodeIds == NodeIds \cup {"n2", "n3"}

\* the orders random.shuffle may leave a list of the nodes S in
RECURSIVE Shuffles(_)
Shuffles(S) ==
  IF S = {} THEN {<<>>}
  ELSE UNION {{<<x>> \o q : q \in Shuffles(S \ {x})} : x \in S}

\* the exception lists callers pass: None or a list of node UUIDs
ExceptionInputs ==
  {<<>>} \cup {<<e>> : e \in {x \in SUBSET PoolNodeIds : Cardinality(x) <= MaxExceptions}}

MaintainCandidatePool(c, exceptions, node_list) ==
  /\ BodyRunning(c)
  /\ LET o == EnterCM(Mach(c), c, FALSE, FALSE)
     IN /\ IF Runs(o) THEN node_list \in Shuffles(DOMAIN ConfigData(o).nodes)
           ELSE node_list = <<>>
        /\ Method(c, FALSE, o, MaintainCandidatePoolBody(o, exceptions, node_list),
                  [NoOp EXCEPT !.op = "MaintainCandidatePool", !.arg = <<exceptions>>])

\* what a node may be: a candidate, a node fit to become one, an offline, a
\* drained or a not master-capable node, and a candidate that went offline
NodeProfiles ==
  {[master_candidate |-> TRUE, offline |-> FALSE, drained |-> FALSE, master_capable |-> TRUE],
   [master_candidate |-> FALSE, offline |-> FALSE, drained |-> FALSE, master_capable |-> TRUE],
   [master_candidate |-> FALSE, offline |-> TRUE, drained |-> FALSE, master_capable |-> TRUE],
   [master_candidate |-> FALSE, offline |-> FALSE, drained |-> TRUE, master_capable |-> TRUE],
   [master_candidate |-> FALSE, offline |-> FALSE, drained |-> FALSE, master_capable |-> FALSE],
   [master_candidate |-> TRUE, offline |-> TRUE, drained |-> FALSE, master_capable |-> TRUE]}

PoolDict(profile, size) ==
  [NormalDict EXCEPT
     !.cluster = [serial_no |-> 1, master_node |-> "n1", candidate_pool_size |-> size],
     !.nodes = [n \in PoolNodeIds |->
                  [group |-> "g1", serial_no |-> 1,
                   master_candidate |-> profile[n].master_candidate,
                   offline |-> profile[n].offline,
                   drained |-> profile[n].drained,
                   master_capable |-> profile[n].master_capable]]]

InitPool ==
  \E profile \in [PoolNodeIds -> NodeProfiles], size \in 1 .. MaxPoolSize :
    InitStores(PoolDict(profile, size), [c \in Ctx |-> FALSE])

NextPool ==
  \E c \in {"job1"} :
    \E exceptions \in ExceptionInputs, node_list \in {<<>>} \cup Shuffles(PoolNodeIds) :
      MaintainCandidatePool(c, exceptions, node_list)

SpecPool == InitPool /\ [][NextPool]_vars

\* ------------------------------------------------------- detached snapshots

\* DetachedConfig(config_data): an offline store without file or client that is
\* handed the graph object of store c
DetachedConfig(c, data) ==
  [NewStoreWith(TRUE, FALSE) EXCEPT !.detached = TRUE, !.config_data = data, !.origin = <<c>>]

\* d = c.GetDetachedConfig(): a shared method of c whose result the caller keeps
\* as store d
GetDetachedConfig(c, d) ==
  /\ BodyRunning(c) /\ Bounded(c)
  /\ d # c /\ stack[d] = <<>>
  /\ LET o == EnterCM(Mach(c), c, TRUE, FALSE)
         m == ExitCM(o, c, TRUE)
         stores == Sharing(c, m.s, m.rebound)
     IN \E caught \in Catches(c) :
          CommitStores(c, m, Propagate(stack[c], m.exc, caught),
                       [NoOp EXCEPT !.op = "GetDetachedConfig", !.shared = TRUE,
                                    !.opened = IF Runs(o) THEN o.s.config_data ELSE <<>>,
                                    !.body = IF Runs(o) THEN o.s.config_data ELSE <<>>],
                       IF m.exc = "" /\ Runs(o)
                       THEN [stores EXCEPT ![d] = DetachedConfig(c, o.s.config_data)]
                       ELSE stores)

\* a job whose store is online or offline takes snapshots, inside and outside
\* its sessions, and goes on reading and changing its configuration; the
\* holder of the snapshot reads it and attempts to write through it
InitDetached ==
  \E offl \in BOOLEAN :
    InitStores(StatusDict, [c \in Ctx |-> IF c = "job1" THEN offl ELSE FALSE])

NextOrigin(c, d) ==
  \/ Enter(c, FALSE, FALSE) /\ stack[c] = <<>>
  \/ Exit(c)
  \/ GetDetachedConfig(c, d)
  \/ MarkInstanceUp(c, "i1")
  \/ GetInstanceInfo(c, "i1")
  \/ \E v \in AdminStates : EditTarget(c, v)

NextSnapshot(d) ==
  /\ cfg[d].detached
  /\ \/ \E i \in InstIds : GetInstanceInfo(d, i)
     \/ GetNodeInfo(d, "n1")
     \/ MarkInstanceDown(d, "i1")
     \/ AddNode(d, "n2", "g1")
     \/ RemoveNode(d, "n1")
     \/ AllocatePort(d, 0)
     \/ AddInstanceDisk(d, "i1", "d1", <<>>)
     \/ Update(d)

NextDetached == NextOrigin("job1", "job2") \/ NextSnapshot("job2")

SpecDetached == InitDetached /\ [][NextDetached]_vars

\* ------------------------------------------------- the file and its identity

MaxFileId == 4

\* something other than the store replaces the configuration file: the file
\* gets another identity, and its content is of version v
ExternalWrite(v) ==
  /\ cfgfile.id < MaxFileId
  /\ cfgfile' = [data |-> [cfgfile.data EXCEPT !.version = v], id |-> cfgfile.id + 1]
  /\ last' = [NoOp EXCEPT !.op = "ExternalWrite"]
  /\ UNCHANGED <<cfg, lockd, stack, tgt, acct>>

\* one job with an offline store works on a file that others may replace
InitFile ==
  \E v \in Versions :
    InitStores([StatusDict EXCEPT !.version = v], [c \in Ctx |-> c = "job1"])

NextFile ==
  \/ \E v \in Versions : ExternalWrite(v)
  \/ \E c \in {"job1"} :
       \/ \E shared \in BOOLEAN : Enter(c, shared, FALSE)
       \/ Exit(c)
       \/ BodyRaise(c)
       \/ MarkInstanceUp(c, "i1")
       \/ MarkInstanceDown(c, "i1")
       \/ GetInstanceInfo(c, "i1")

SpecFile == InitFile /\ [][NextFile]_vars

\* ----------------------------------------------------------- instance calls

\* the Instance objects callers pass to AddInstance: one NIC, no address
NewInstance(uuid, mac) ==
  [uuid |-> uuid, disks |-> <<>>, admin_state |-> "down", serial_no |-> 0,
   network_port |-> <<>>,
   nics |-> <<[mac |-> mac, ip |-> <<>>, network |-> <<>>]>>]

\* AddInstance(instance, ec_id), called outside the sessions of the store
AddInstance(c, uuid, mac) ==
  /\ stack[c] = <<>>
  /\ Plain(c, AddInstanceBody(Mach(c), NewInstance(uuid, mac)),
           [NoOp EXCEPT !.op = "AddInstance", !.arg = <<uuid, mac>>])

MacInputs == {"mac1", "mac2"}

MaxInstSerial == 3

\* the NIC lists of a stored instance: with a network and an address reserved in
\* it, with an address only, with neither, and two NICs on the network
NicLists ==
  {<<[mac |-> "mac1", ip |-> <<"ip5">>, network |-> <<"net1">>]>>,
   <<[mac |-> "mac1", ip |-> <<"ip5">>, network |-> <<>>]>>,
   <<[mac |-> "mac1", ip |-> <<>>, network |-> <<"net1">>]>>,
   <<[mac |-> "mac1", ip |-> <<"ip5">>, network |-> <<"net1">>],
     [mac |-> "mac3", ip |-> <<"ip6">>, network |-> <<"net1">>]>>}

\* the addresses a network has reserved for the NICs of the list
Reserved(nics) ==
  {nics[k].ip[1] : k \in {k \in DOMAIN nics : nics[k].network # <<>> /\ nics[k].ip # <<>>}}

\* a cluster with instance i1, which has the given NICs and network port, and
\* network net1, in which address ip7 is reserved for something else
InstanceDict(nics, port) ==
  [DiskDict EXCEPT
     !.cluster = [serial_no |-> 1, master_node |-> "n1",
                  highest_used_port |-> LastDrbdPort - 1, tcpudp_port_pool |-> {1}],
     !.instances = [i \in {"i1"} |->
                      [uuid |-> i, disks |-> <<>>, admin_state |-> "up", serial_no |-> 1,
                       network_port |-> port, nics |-> nics]]] @@
  [networks |-> [n \in {"net1"} |-> [reservations |-> Reserved(nics) \cup {"ip7"}]]]

InitInstances ==
  \E nics \in NicLists, port \in {<<>>, <<LastDrbdPort - 2>>} :
    InitStores(InstanceDict(nics, port), [c \in Ctx |-> FALSE])

NextInstances ==
  \E c \in {"job1"} :
    \/ \E uuid \in {"i1", "i2", "i3"}, mac \in MacInputs : AddInstance(c, uuid, mac)
    \/ \E i \in {"i1", "i2", "i3"} :
         lockd.data.cluster.serial_no < MaxInstSerial /\ RemoveInstance(c, i)
    \/ GetInstanceInfo(c, "i1")

SpecInstances == InitInstances /\ [][NextInstances]_vars

\* -------------------------------------------------------- reservation calls

NetInputs == {<<>>, <<"net1">>}

Addresses == {"ip7", "ip8"}

GenerateMAC(c, net, mac) ==
  /\ BodyRunning(c)
  /\ <<c, "mac", mac>> \notin lockd.reserved
  /\ Plain(c, GenerateMACBody(Mach(c), c, net, mac),
           [NoOp EXCEPT !.op = "GenerateMAC", !.arg = <<net>>])

ReserveMAC(c, mac) ==
  /\ BodyRunning(c)
  /\ Plain(c, ReserveMACBody(Mach(c), c, mac), [NoOp EXCEPT !.op = "ReserveMAC", !.arg = <<mac>>])

ReleaseIp(c, net, address) ==
  /\ BodyRunning(c)
  /\ Plain(c, ReleaseIpBody(Mach(c), c, net, address),
           [NoOp EXCEPT !.op = "ReleaseIp", !.arg = <<net, address>>])

GenerateIp(c, net, address) ==
  /\ BodyRunning(c)
  /\ <<c, "ip", address>> \notin lockd.reserved
  /\ Plain(c, GenerateIpBody(Mach(c), c, net, address),
           [NoOp EXCEPT !.op = "GenerateIp", !.arg = <<net>>])

ReserveIp(c, net, address) ==
  /\ BodyRunning(c)
  /\ Plain(c, ReserveIpBody(Mach(c), c, net, address),
           [NoOp EXCEPT !.op = "ReserveIp", !.arg = <<net, address>>])

ReserveLV(c, lv_name) ==
  /\ BodyRunning(c)
  /\ Plain(c, ReserveLVBody(Mach(c), c, lv_name),
           [NoOp EXCEPT !.op = "ReserveLV", !.arg = <<lv_name>>])

GenerateDRBDSecret(c, secret) ==
  /\ BodyRunning(c)
  /\ <<c, "secret", secret>> \notin lockd.reserved
  /\ Plain(c, GenerateDRBDSecretBody(Mach(c), c, secret), [NoOp EXCEPT !.op = "GenerateDRBDSecret"])

AllocateDRBDMinor(c, inst) ==
  /\ BodyRunning(c)
  /\ Plain(c, AllocateDRBDMinorBody(Mach(c), c, inst),
           [NoOp EXCEPT !.op = "AllocateDRBDMinor", !.arg = <<inst>>])

ComputeDRBDMap(c) ==
  /\ BodyRunning(c)
  /\ LET o == EnterCM(Mach(c), c, FALSE, FALSE)
     IN Method(c, FALSE, o, ComputeDRBDMapBody(o), [NoOp EXCEPT !.op = "ComputeDRBDMap"])

\* one job making reservations through a store that is online, or offline
\* with or without a LockD client
InitReserve ==
  \E offl \in BOOLEAN, wconfd \in BOOLEAN :
    /\ offl \/ wconfd
    /\ InitStoresWith(NormalDict, [c \in Ctx |-> NewStoreWith(offl, wconfd)])

NextReserve ==
  \E c \in {"job1"} :
    \/ \E net \in NetInputs, mac \in {"mac1", "mac2"} : GenerateMAC(c, net, mac)
    \/ \E mac \in {"mac1", "mac2"} : ReserveMAC(c, mac)
    \/ \E net \in NetInputs, address \in Addresses : ReleaseIp(c, net, address)
    \/ \E net \in NetInputs, address \in Addresses : GenerateIp(c, net, address)
    \/ \E net \in NetInputs, address \in Addresses : ReserveIp(c, net, address)
    \/ \E lv_name \in {"xenvg/lv1"} : ReserveLV(c, lv_name)
    \/ \E secret \in {"secret1"} : GenerateDRBDSecret(c, secret)
    \/ \E inst \in InstIds : AllocateDRBDMinor(c, inst)
    \/ ComputeDRBDMap(c)

SpecReserve == InitReserve /\ [][NextReserve]_vars

\* ------------------------------------------------------------ verifier calls

VerifyConfig(c) ==
  /\ BodyRunning(c)
  /\ LET o == EnterCM(Mach(c), c, TRUE, FALSE)
     IN Method(c, TRUE, o, VerifyConfigBody(o), [NoOp EXCEPT !.op = "VerifyConfig"])

\* a cluster in which every invariant of the data model holds: master n1 is
\* the one candidate the pool asks for, instance i1 has the plain disk d1, a
\* NIC with an address and a network port, instance i2 has a NIC and no disk
VerifyDict ==
  [version |-> CONFIG_VERSION,
   cluster |-> [serial_no |-> 1, master_node |-> "n1", master_ip |-> "ip0",
                highest_used_port |-> 2, tcpudp_port_pool |-> {},
                candidate_pool_size |-> 1,
                enabled_disk_templates |-> {"plain", "drbd"},
                ipolicy |-> [k \in {"vcpu-ratio"} |-> <<"float", 4>>]],
   serial_no |-> 1,
   nodes |-> [n \in {"n1", "n2"} |->
                [uuid |-> n, group |-> "g1", serial_no |-> 1,
                 master_candidate |-> n = "n1", offline |-> FALSE, drained |-> FALSE,
                 master_capable |-> TRUE,
                 primary_ip |-> IF n = "n1" THEN "ip1" ELSE "ip2",
                 secondary_ip |-> IF n = "n1" THEN "ip1" ELSE "ip2"]],
   nodegroups |-> [u \in {"g1", "g2"} |->
                     [uuid |-> u, name |-> IF u = "g1" THEN "default" ELSE "other",
                      ipolicy |-> EmptyMap, serial_no |-> 1]],
   instances |-> [i \in {"i1", "i2"} |->
                    [uuid |-> i, name |-> i, serial_no |-> 1, admin_state |-> "up",
                     primary_node |-> IF i = "i1" THEN "n1" ELSE "n2",
                     disk_template |-> "plain",
                     disks |-> IF i = "i1" THEN <<"d1">> ELSE <<>>,
                     nics |-> <<[mac |-> IF i = "i1" THEN "mac1" ELSE "mac2",
                                 ip |-> IF i = "i1" THEN <<"ip5">> ELSE <<>>,
                                 network |-> <<>>, link |-> "bridge:br0"]>>,
                     network_port |-> IF i = "i1" THEN <<2>> ELSE <<>>]],
   disks |-> [d \in {"d1"} |->
                [uuid |-> d, iv_name |-> IvName(0), dev_type |-> "plain", port |-> 0,
                 nodes |-> {"n1"}, serial_no |-> 1]]]

\* the ways a stored configuration may depart from VerifyDict
Defects ==
  {"none", "instance uuid", "instance uuid unknown", "primary node", "secondary node", "disk twice", "dangling disk",
   "iv_name", "unattached disk", "disk uuid", "master no candidate", "no master", "mac",
   "port twice", "highest port", "group name twice", "group name uuid", "disk template",
   "many candidates", "node state", "node uuid", "group uuid", "node ip", "nic ip",
   "cluster policy int", "cluster policy str", "group policy int", "group policy str"}

Defect(name, g) ==
  CASE name = "none" -> g
    [] name = "instance uuid" -> [g EXCEPT !.instances["i2"].uuid = "i1"]
    [] name = "instance uuid unknown" -> [g EXCEPT !.instances["i2"].uuid = "i9"]
    [] name = "primary node" -> [g EXCEPT !.instances["i2"].primary_node = "n9"]
    [] name = "secondary node" -> [g EXCEPT !.disks["d1"].nodes = {"n1", "n9"}]
    [] name = "disk twice" -> [g EXCEPT !.instances["i2"].disks = <<"d1">>]
    [] name = "dangling disk" -> [g EXCEPT !.instances["i2"].disks = <<"d9">>]
    [] name = "iv_name" -> [g EXCEPT !.disks["d1"].iv_name = IvName(1)]
    [] name = "unattached disk" ->
         [g EXCEPT !.disks = Put(@, "d2", [uuid |-> "d2", iv_name |-> IvName(0),
                                           dev_type |-> "plain", port |-> 0,
                                           nodes |-> {"n2"}, serial_no |-> 1])]
    [] name = "disk uuid" -> [g EXCEPT !.disks["d1"].uuid = "d9"]
    [] name = "master no candidate" -> [g EXCEPT !.nodes["n1"].master_candidate = FALSE]
    [] name = "no master" -> [g EXCEPT !.cluster.master_node = "n9"]
    [] name = "mac" -> [g EXCEPT !.instances["i2"].nics[1].mac = "mac1"]
    [] name = "port twice" -> [g EXCEPT !.cluster.tcpudp_port_pool = {2}]
    [] name = "highest port" -> [g EXCEPT !.cluster.highest_used_port = 1]
    [] name = "group name twice" -> [g EXCEPT !.nodegroups["g2"].name = "default"]
    [] name = "group name uuid" ->
         [g EXCEPT !.nodegroups["g2"].name = "0a1b2c3d-0000-4000-8000-00000000000a"]
    [] name = "disk template" -> [g EXCEPT !.instances["i2"].disk_template = "rbd"]
    [] name = "many candidates" -> [g EXCEPT !.nodes["n2"].master_candidate = TRUE]
    [] name = "node state" -> [g EXCEPT !.nodes["n2"].offline = TRUE,
                                        !.nodes["n2"].drained = TRUE]
    [] name = "node uuid" -> [g EXCEPT !.nodes["n2"].uuid = "n9"]
    [] name = "group uuid" -> [g EXCEPT !.nodegroups["g2"].uuid = "g9"]
    [] name = "node ip" -> [g EXCEPT !.nodes["n2"].primary_ip = "ip0",
                                     !.nodes["n2"].secondary_ip = "ip0"]
    [] name = "nic ip" -> [g EXCEPT !.instances["i2"].nics[1].ip = <<"ip5">>]
    [] name = "cluster policy int" ->
         [g EXCEPT !.cluster.ipolicy["vcpu-ratio"] = <<"int", 4>>]
    [] name = "cluster policy str" ->
         [g EXCEPT !.cluster.ipolicy["vcpu-ratio"] = <<"str", 4>>]
    [] name = "group policy int" ->
         [g EXCEPT !.nodegroups["g2"].ipolicy = [k \in {"vcpu-ratio"} |-> <<"int", 4>>]]
    [] name = "group policy str" ->
         [g EXCEPT !.nodegroups["g2"].ipolicy = [k \in {"vcpu-ratio"} |-> <<"str", 4>>]]

\* one job verifying a stored configuration that departs from VerifyDict in
\* up to two ways, through an online or an offline store
InitVerify ==
  \E a \in Defects, b \in Defects, offl \in BOOLEAN :
    InitStores(Defect(b, Defect(a, VerifyDict)),
               [c \in Ctx |-> IF c = "job1" THEN offl ELSE FALSE])

NextVerify ==
  \E c \in {"job1"} :
    \/ VerifyConfig(c)
    \/ OutDate(c)

SpecVerify == InitVerify /\ [][NextVerify]_vars

\* one job adding and removing disks and removing instances
IdxFew == {<<>>, <<-1>>, <<0>>, <<MaxIdx>>}

NextInstDisk ==
  \E c \in {"job1"} : \E inst \in InstIds :
    \/ \E d \in DiskIds, idx \in IdxFew : AddInstanceDisk(c, inst, d, idx)
    \/ \E d \in DiskIds : RemoveInstanceDisk(c, inst, d)
    \/ RemoveInstance(c, inst)

SpecInstDisk == InitDisk /\ [][NextInstDisk]_vars

\* ------------------------------------------------------------- properties

WriteCalls == {"WriteConfigAndUnlock", "WriteConfig", "SafeWriteFile"}
NumWrites(calls) == Cardinality({k \in DOMAIN calls : calls[k] \in WriteCalls})

\* the last step closed the outermost block of a job, an exclusive one
ClosedOutermostExclusive == last.op = "Exit" /\ last.depth = 1 /\ ~last.shared

\* C1: when an outermost exclusive session ends, its close issues exactly one
\* write when the body raised nothing (WriteConfigAndUnlock online, the file
\* save offline) and no write at all when the body raised
C1_WriteOnExit ==
  ClosedOutermostExclusive =>
    IF last.excIn THEN NumWrites(last.calls) = 0
    ELSE last.calls = IF cfg[last.c].offline THEN <<"SafeWriteFile">>
                      ELSE <<"WriteConfigAndUnlock">>

C1_Witness ==
  /\ ClosedOutermostExclusive /\ ~last.excIn /\ last.exc = ""
  /\ last.calls = <<"WriteConfigAndUnlock">>

C1_WitnessRaised ==
  /\ ClosedOutermostExclusive /\ last.excIn /\ last.calls = <<"UnlockConfig">>

\* the serialized form of the graph a store holds after loading dict d
Loaded(d) == ToDict(UpgradeNodes(AddDefaultNodeGroup(FromDict(d)), DOMAIN d.nodes).g)

\* the committed configuration as store c would load it
Committed(c) == Loaded(IF cfg[c].offline THEN cfgfile.data ELSE lockd.data)

\* the step is a top-level shared accessor of the job whose outermost exclusive
\* block has just ended with the exception its body raised
SharedAfterFailedExclusive ==
  /\ ClosedOutermostExclusive /\ last.excIn
  /\ last'.op = "GetNodeInfo" /\ last'.c = last.c /\ last'.opened # <<>>

\* C2: what an outermost exclusive session changed before it ended with an
\* exception is discarded: the shared session opened next sees the last
\* committed graph
C2_FailedSessionDiscarded ==
  [][SharedAfterFailedExclusive => ToDict(last'.opened[1]) = Committed(last.c)']_vars

\* the same, for offline stores only
C2_FailedSessionDiscardedOffline ==
  [][(SharedAfterFailedExclusive /\ cfg[last.c].offline)
       => ToDict(last'.opened[1]) = Committed(last.c)']_vars

\* C3: two jobs, each with its own online store, hold the same instance read at
\* serial s and each call Update: an Update succeeds only against the serial
\* that is committed, and commits exactly its target with the serial raised by
\* one; any other Update raises ConfigurationError and commits nothing. So of
\* two Updates from the same serial at most one succeeds and none is lost
C3_NoLostUpdate ==
  [][\A c \in Ctx :
       (last'.op = "Update" /\ last'.c = c) =>
         LET t == tgt[c][1]
             cur == lockd.data.instances
         IN IF t.uuid \in DOMAIN cur /\ cur[t.uuid].serial_no = t.obj.serial_no
            THEN /\ last'.exc = ""
                 /\ lockd'.data = [lockd.data EXCEPT !.instances[t.uuid] =
                                     [t.obj EXCEPT !.serial_no = @ + 1]]
            ELSE /\ last'.exc = "ConfigurationError"
                 /\ lockd'.data = lockd.data]_vars

\* both jobs read i1 at the same serial and changed it differently; job1's
\* Update was committed and job2's has just been refused
C3_Witness ==
  /\ last.op = "Update" /\ last.c = "job2" /\ last.exc = "ConfigurationError"
  /\ tgt["job1"] # <<>> /\ tgt["job2"] # <<>>
  /\ tgt["job1"][1].uuid = "i1" /\ tgt["job2"][1].uuid = "i1"
  /\ tgt["job1"][1].obj.serial_no = tgt["job2"][1].obj.serial_no + 1
  /\ tgt["job1"][1].obj.admin_state # tgt["job2"][1].obj.admin_state
  /\ lockd.data.instances["i1"] = tgt["job1"][1].obj

\* C4: Update of a target whose serial number differs from the stored object's,
\* or whose UUID the opened graph does not hold, raises ConfigurationError; the
\* store's graph stays as it was opened and the session writes nothing back
C4_RefusedUpdate ==
  [][\A c \in Ctx :
       (last'.op = "Update" /\ last'.c = c /\ last'.depth = 0 /\ last'.opened # <<>>) =>
         LET t == tgt[c][1]
             cur == last'.opened[1].instances
         IN (t.uuid \notin DOMAIN cur \/ cur[t.uuid].serial_no # t.obj.serial_no) =>
              /\ last'.exc = "ConfigurationError"
              /\ last'.body = last'.opened
              /\ cfg'[c].config_data = last'.opened
              /\ NumWrites(last'.calls) = 0
              /\ lockd'.data = lockd.data]_vars

\* an Update of an instance the configuration does not hold has been refused
C4_Witness ==
  /\ last.op = "Update" /\ last.exc = "ConfigurationError"
  /\ last.calls = <<"LockConfig", "UnlockConfig">>
  /\ tgt[last.c][1].uuid \notin DOMAIN last.opened[1].instances

\* an Update of an instance read before another job's commit has been refused
C4_WitnessStale ==
  /\ last.op = "Update" /\ last.exc = "ConfigurationError"
  /\ tgt[last.c][1].uuid \in DOMAIN last.opened[1].instances
  /\ last.opened[1].instances[tgt[last.c][1].uuid].serial_no > tgt[last.c][1].obj.serial_no

\* the step opened an outermost exclusive block of job c without failing
OpensOutermostExclusive(c) ==
  last'.op = "Enter" /\ last'.c = c /\ last'.depth = 0 /\ ~last'.shared /\ last'.exc = ""

\* C5: an outermost exclusive open leaves the store with a fresh copy of the
\* authoritative graph: online the graph LockConfig returns, whatever was
\* cached; offline the content of the file, upgraded (and then saved, with
\* the serial number raised, when the upgrade changed it)
C5_FreshOnExclusiveOpen ==
  [][\A c \in Ctx :
       OpensOutermostExclusive(c) =>
         LET got == ToDict(cfg'[c].config_data[1])
         IN IF cfg[c].offline
            THEN IF Loaded(cfgfile.data) = cfgfile.data
                 THEN got = cfgfile.data /\ cfgfile' = cfgfile
                 ELSE got = BumpSerialNo(Loaded(cfgfile.data)) /\ cfgfile'.data = got
            ELSE got = Loaded(lockd.data) /\ lockd'.data = lockd.data]_vars

\* an online store whose cache differed from the graph of the lock daemon has
\* opened an outermost exclusive block and holds the daemon's graph
C5_Witness ==
  /\ last.op = "Enter" /\ last.depth = 0 /\ ~last.shared /\ last.exc = ""
  /\ ~cfg[last.c].offline /\ last.calls = <<"LockConfig">>
  /\ last.cached # <<>> /\ ToDict(last.cached[1]) # Loaded(lockd.data)
  /\ ToDict(cfg[last.c].config_data[1]) = Loaded(lockd.data)

\* an offline store has opened an outermost exclusive block on a file written
\* before node groups existed
C5_WitnessOffline ==
  /\ last.op = "Enter" /\ last.depth = 0 /\ ~last.shared /\ last.exc = ""
  /\ cfg[last.c].offline /\ last.calls = <<"ReadFile", "SafeWriteFile">>
  /\ DefaultGroupId \in DOMAIN cfgfile.data.nodegroups

\* C6: an online shared, unforced open reuses the cached graph only when it is
\* up to date: right after another job committed a write, the graph the open
\* serves is the graph of the lock daemon
C6_SharedOpenUpToDate ==
  [][\A c \in Ctx :
       (last.op = "Update" /\ last.exc = "" /\ last.c # c
          /\ last'.op = "GetInstanceInfo" /\ last'.c = c /\ last'.depth = 0
          /\ last'.opened # <<>> /\ ~cfg[c].offline) =>
         ToDict(last'.opened[1]) = Loaded(lockd.data)]_vars

\* the same for stores that hold no cached graph when they open
C6_SharedOpenWithoutCache ==
  [][\A c \in Ctx :
       (last'.op = "GetInstanceInfo" /\ last'.c = c /\ last'.depth = 0
          /\ last'.opened # <<>> /\ ~cfg[c].offline /\ cfg[c].config_data = <<>>) =>
         /\ ToDict(last'.opened[1]) = Loaded(lockd.data)
         /\ last'.calls = <<"ReadConfig">>]_vars

C8_ReleaseGuaranteed ==
  \A c \in Ctx :
    stack[c] = <<>> => (~acct[c].held /\ (acct[c].got => acct[c].rel = 1))

\* every disk of every instance of graph g is stored and named after its position
IvNamesInOrder(g) ==
  \A i \in DOMAIN g.instances :
    \A k \in DOMAIN g.instances[i].disks :
      /\ g.instances[i].disks[k] \in DOMAIN g.disks
      /\ g.disks[g.instances[i].disks[k]].iv_name = IvName(k - 1)

\* C9: after any sequence of successful AddInstanceDisk and RemoveInstanceDisk
\* calls, the disk at position k of every instance has the iv_name disk/k
C9_IvNames == IvNamesInOrder(lockd.data)

\* the first of three disks of an instance has been removed, so that the two
\* that followed it moved down
C9_Witness ==
  /\ last.op = "RemoveInstanceDisk" /\ last.exc = ""
  /\ Len(last.opened[1].instances[last.arg[1]].disks) = 3
  /\ last.opened[1].instances[last.arg[1]].disks[1] = last.arg[2]
  /\ Len(lockd.data.instances[last.arg[1]].disks) = 2

\* C10: AddInstanceDisk(inst, disk, idx) with a disk whose UUID is not in use,
\* on an instance that has n disks: idx None or n appends; 0 <= idx < n inserts
\* at idx and keeps the order of the others; idx < 0 or idx > n fails and
\* commits nothing. On success the disk is in the disk table under its UUID
C10_AddInstanceDiskIndex ==
  [][(last'.op = "AddInstanceDisk" /\ last'.opened # <<>>
        /\ last'.arg[2] \notin AllIDs(last'.opened[1])) =>
       LET inst == last'.arg[1]
           d == last'.arg[2]
           idx == last'.arg[3]
           old == last'.opened[1].instances[inst].disks
           n == Len(old)
           at == IF idx = <<>> THEN n ELSE idx[1]
           new == lockd'.data.instances[inst].disks
       IN IF at < 0 \/ at > n
          THEN last'.exc # "" /\ lockd' = lockd
          ELSE /\ last'.exc = ""
               /\ Len(new) = n + 1 /\ new[at + 1] = d
               /\ \A j \in 1 .. at : new[j] = old[j]
               /\ \A j \in at + 1 .. n : new[j + 1] = old[j]
               /\ d \in DOMAIN lockd'.data.disks
               /\ \A j \in DOMAIN lockd.data.instances \ {inst} :
                    lockd'.data.instances[j].disks = lockd.data.instances[j].disks]_vars

\* a disk has been inserted between the two disks of an instance
C10_Witness ==
  /\ last.op = "AddInstanceDisk" /\ last.exc = "" /\ last.arg[3] = <<1>>
  /\ Len(lockd.data.instances[last.arg[1]].disks) = 3
  /\ lockd.data.instances[last.arg[1]].disks[2] = last.arg[2]

\* a call with index -1 on an instance with disks has failed
C10_WitnessMinusOne ==
  /\ last.op = "AddInstanceDisk" /\ last.exc = "IndexError" /\ last.arg[3] = <<-1>>
  /\ Len(lockd.data.instances[last.arg[1]].disks) = 2

\* C11: an AddInstanceDisk call that fails leaves the in-memory graph as it was
\* before the call: the disk is not in the disk table, no disk list and no
\* serial number changed
C11_FailedAddLeavesGraph ==
  [][(last'.op = "AddInstanceDisk" /\ last'.exc # "" /\ last'.opened # <<>>) =>
       (last'.body = last'.opened /\ cfg'[last'.c].config_data = last'.opened)]_vars

\* the same for the calls that fail because the disk UUID is in use
C11_FailedAddInUse ==
  [][(last'.op = "AddInstanceDisk" /\ last'.exc # "" /\ last'.opened # <<>>
        /\ last'.arg[2] \in AllIDs(last'.opened[1])) =>
       (last'.body = last'.opened /\ cfg'[last'.c].config_data = last'.opened)]_vars

\* in graph g every UUID of a disk list is stored in the disk table and occurs
\* in one list only, once
DisksAttachedOnce(g) ==
  \A i \in DOMAIN g.instances : \A k \in DOMAIN g.instances[i].disks :
    /\ g.instances[i].disks[k] \in DOMAIN g.disks
    /\ \A j \in DOMAIN g.instances : \A l \in DOMAIN g.instances[j].disks :
         g.instances[j].disks[l] = g.instances[i].disks[k] => (j = i /\ l = k)

\* C12: after any sequence of AddInstanceDisk, RemoveInstanceDisk and
\* RemoveInstance calls every UUID in a disk list is a key of the disk table
\* and is attached to exactly one instance, once; in the committed graph and
\* in the graph the store holds in memory
C12_DisksAttachedOnce ==
  /\ DisksAttachedOnce(lockd.data)
  /\ \A c \in Ctx : cfg[c].config_data # <<>> => DisksAttachedOnce(cfg[c].config_data[1])

\* both instances have disks and a call that would attach a disk of the other
\* instance has been refused
C12_Witness ==
  /\ last.op = "AddInstanceDisk" /\ last.exc = "ConfigurationError"
  /\ \E j \in DOMAIN lockd.data.instances \ {last.arg[1]} :
       last.arg[2] \in ListElems(lockd.data.instances[j].disks)
  /\ last.arg[1] \in DOMAIN lockd.data.instances
  /\ lockd.data.instances[last.arg[1]].disks # <<>>

\* C13: RemoveInstanceDisk(inst, disk) on a stored instance: a disk of inst's
\* list leaves that list (the others keep their order) and the disk table; a
\* stored disk that is not in inst's list, unattached or attached to another
\* instance, is refused with an error and nothing changes
C13_RemoveInstanceDisk ==
  [][(last'.op = "RemoveInstanceDisk" /\ last'.opened # <<>>
        /\ last'.arg[1] \in DOMAIN last'.opened[1].instances) =>
       LET inst == last'.arg[1]
           d == last'.arg[2]
           g == last'.opened[1]
           old == g.instances[inst].disks
       IN IF d \in ListElems(old)
          THEN /\ last'.exc = ""
               /\ lockd'.data.instances[inst].disks = SelectSeq(old, LAMBDA x : x # d)
               /\ d \notin DOMAIN lockd'.data.disks
               /\ DOMAIN lockd'.data.disks = DOMAIN g.disks \ {d}
          ELSE d \in DOMAIN g.disks =>
                 /\ last'.exc # ""
                 /\ last'.body = last'.opened
                 /\ cfg'[last'.c].config_data = last'.opened
                 /\ lockd' = lockd]_vars

\* the removal of a stored disk that no instance holds has been refused
C13_Witness ==
  /\ last.op = "RemoveInstanceDisk" /\ last.exc = "ProgrammerError"
  /\ last.arg[1] \in DOMAIN lockd.data.instances
  /\ last.arg[2] \in DOMAIN lockd.data.disks
  /\ \A j \in DOMAIN lockd.data.instances :
       last.arg[2] \notin ListElems(lockd.data.instances[j].disks)

\* the removal of a disk attached to the other instance has been refused
C13_WitnessOther ==
  /\ last.op = "RemoveInstanceDisk" /\ last.exc = "ProgrammerError"
  /\ last.arg[1] \in DOMAIN lockd.data.instances
  /\ \E j \in DOMAIN lockd.data.instances \ {last.arg[1]} :
       last.arg[2] \in ListElems(lockd.data.instances[j].disks)

\* the second of three disks has been removed
C13_WitnessRemoved ==
  /\ last.op = "RemoveInstanceDisk" /\ last.exc = ""
  /\ Len(last.opened[1].instances[last.arg[1]].disks) = 3
  /\ last.opened[1].instances[last.arg[1]].disks[2] = last.arg[2]

\* group membership mirrors the nodes' group fields: every group's member list
\* holds exactly the stored nodes of that group, each once
MembersMirrorNodes(g) ==
  \A u \in DOMAIN g.nodegroups :
    /\ ListElems(g.nodegroups[u].members) = {n \in DOMAIN g.nodes : g.nodes[n].group = u}
    /\ \A j, k \in DOMAIN g.nodegroups[u].members :
         g.nodegroups[u].members[j] = g.nodegroups[u].members[k] => j = k

\* C14: after a successful AddNode, RemoveNode or AssignGroupNodes on an opened
\* store, every group's member list equals the set of stored nodes whose group
\* field names that group, and holds no node twice.
C14_MembersMirrorNodes ==
  (last.op \in {"AddNode", "RemoveNode", "AssignGroupNodes"} /\ last.exc = ""
     /\ last.body # <<>>)
    => MembersMirrorNodes(last.body[1])

\* the same for the calls whose list names no node twice
C14_DistinctMods ==
  (last.op \in {"AddNode", "RemoveNode", "AssignGroupNodes"} /\ last.exc = ""
     /\ last.body # <<>>
     /\ (last.op = "AssignGroupNodes" =>
           \A j, k \in DOMAIN last.arg : last.arg[j][1] = last.arg[k][1] => j = k))
    => MembersMirrorNodes(last.body[1])

C14_WitnessMoved ==
  /\ last.op = "AssignGroupNodes" /\ last.exc = "" /\ last.body # <<>>
  /\ Len(last.arg) = 2 /\ last.arg[1][1] # last.arg[2][1]
  /\ \A k \in {1, 2} : last.opened[1].nodes[last.arg[k][1]].group # last.arg[k][2]

\* C15: RemoveNodeGroup never leaves the graph without a node group: asked to
\* remove the only group it fails and the group stays; asked to remove a UUID
\* that is no group it raises ConfigurationError and changes nothing.
C15_RemoveNodeGroup ==
  (last.op = "RemoveNodeGroup" /\ last.opened # <<>>) =>
    LET g == last.opened[1]
        grp == last.arg[1]
    IN /\ DOMAIN last.body[1].nodegroups # {}
       /\ grp \notin DOMAIN g.nodegroups =>
            (last.exc = "ConfigurationError" /\ last.body = last.opened)
       /\ DOMAIN g.nodegroups = {grp} =>
            (last.exc # "" /\ last.body = last.opened)

C15_Witness ==
  /\ last.op = "RemoveNodeGroup" /\ last.opened # <<>>
  /\ DOMAIN last.opened[1].nodegroups = {last.arg[1]}
  /\ last.exc = "AssertionError"

C15_WitnessUnknown ==
  /\ last.op = "RemoveNodeGroup" /\ last.opened # <<>>
  /\ last.arg[1] \notin DOMAIN last.opened[1].nodegroups
  /\ last.exc = "ConfigurationError"

\* C16: AllocatePort serves from the pool first: with a non-empty pool the
\* port it returns was in the pool, exactly that port leaves the pool and
\* highest_used_port stays; with an empty pool it returns highest_used_port + 1
\* and stores that as the new highest_used_port.
C16_AllocatePortPoolFirst ==
  (last.op = "AllocatePort" /\ last.ret # <<>>) =>
    LET old == last.opened[1].cluster
        new == last.body[1].cluster
        port == last.ret[1]
    IN IF old.tcpudp_port_pool # {}
       THEN /\ port \in old.tcpudp_port_pool
            /\ new.tcpudp_port_pool = old.tcpudp_port_pool \ {port}
            /\ new.highest_used_port = old.highest_used_port
       ELSE /\ port = old.highest_used_port + 1
            /\ new.highest_used_port = port
            /\ new.tcpudp_port_pool = {}

C16_Witness ==
  /\ last.op = "AllocatePort" /\ last.ret # <<>>
  /\ Cardinality(last.opened[1].cluster.tcpudp_port_pool) >= 2

C16_WitnessEmptyPool ==
  /\ last.op = "AllocatePort" /\ last.ret # <<>>
  /\ last.opened[1].cluster.tcpudp_port_pool = {}

\* C17: AllocatePort never returns a port at or past the end of the DRBD
\* range; with an empty pool and highest_used_port + 1 at the end of the range
\* it raises ConfigurationError and leaves highest_used_port and the pool alone.
C17_AllocatePortBelowLast ==
  last.op = "AllocatePort" =>
    /\ last.ret # <<>> => last.ret[1] < LastDrbdPort
    /\ (/\ last.opened # <<>>
        /\ last.opened[1].cluster.tcpudp_port_pool = {}
        /\ last.opened[1].cluster.highest_used_port + 1 >= LastDrbdPort)
         => (/\ last.exc = "ConfigurationError"
             /\ last.body[1].cluster = last.opened[1].cluster)

\* the part of C17 about the exhausted range alone
C17_ExhaustedRangeRefused ==
  (/\ last.op = "AllocatePort"
   /\ last.opened # <<>>
   /\ last.opened[1].cluster.tcpudp_port_pool = {}
   /\ last.opened[1].cluster.highest_used_port + 1 >= LastDrbdPort)
    => (/\ last.exc = "ConfigurationError"
        /\ last.body[1].cluster = last.opened[1].cluster)

C17_WitnessExhausted ==
  /\ last.op = "AllocatePort" /\ last.exc = "ConfigurationError"
  /\ last.opened # <<>>
  /\ last.opened[1].cluster.tcpudp_port_pool = {}

\* C18: a successful mutating call that changes a stored instance strictly
\* increases the instance's serial_no and the cluster's serial_no.
C18_ChangeRaisesSerials ==
  (/\ last.op \in MarkOps \cup {"RenameInstance", "SetInstanceDiskTemplate",
                                 "SetInstancePrimaryNode"}
   /\ last.exc = "" /\ last.opened # <<>>
   /\ last.body[1].instances[last.arg[1]] # last.opened[1].instances[last.arg[1]])
    => (/\ last.body[1].instances[last.arg[1]].serial_no
              > last.opened[1].instances[last.arg[1]].serial_no
        /\ last.body[1].cluster.serial_no > last.opened[1].cluster.serial_no)

\* the part of C18 that the Mark* methods keep: a change of status raises the
\* instance's own serial_no
C18_MarkRaisesInstanceSerial ==
  (/\ last.op \in MarkOps
   /\ last.exc = "" /\ last.opened # <<>>
   /\ last.body[1].instances[last.arg[1]] # last.opened[1].instances[last.arg[1]])
    => last.body[1].instances[last.arg[1]].serial_no
         > last.opened[1].instances[last.arg[1]].serial_no

\* what a Mark* call asks for, given the instance as it was
Asked(op, inst) ==
  LET a == MarkArgs(op)
  IN [admin_state |-> IF a[1] = <<>> THEN inst.admin_state ELSE a[1][1],
      disks_active |-> IF a[2] = <<>> THEN inst.disks_active ELSE a[2][1],
      admin_state_source |-> IF a[3] = <<>> THEN inst.admin_state_source ELSE a[3][1]]

StatusOf(inst) ==
  [admin_state |-> inst.admin_state, disks_active |-> inst.disks_active,
   admin_state_source |-> inst.admin_state_source]

\* a successful Mark* call leaves the instance with the status asked for; it
\* raises the instance's serial_no by exactly one when admin_state,
\* disks_active or admin_state_source changes and leaves the instance as it
\* was otherwise; MarkInstanceDown and MarkInstanceUserDown keep disks_active
C19_MarkStatus ==
  (last.op \in MarkOps /\ last.exc = "" /\ last.opened # <<>>) =>
    LET old == last.opened[1].instances[last.arg[1]]
        new == last.body[1].instances[last.arg[1]]
    IN /\ StatusOf(new) = Asked(last.op, old)
       /\ IF StatusOf(old) # Asked(last.op, old)
          THEN new.serial_no = old.serial_no + 1
          ELSE new = old
       /\ last.op \in {"MarkInstanceDown", "MarkInstanceUserDown"}
            => new.disks_active = old.disks_active
       /\ last.body[1] = [last.opened[1] EXCEPT !.instances[last.arg[1]] = new]

\* the same Mark* call made again right after a successful one changes nothing
C19_RepeatedMarkIsNoOp ==
  [][(/\ last.op \in MarkOps /\ last.exc = ""
      /\ last'.op = last.op /\ last'.arg = last.arg /\ last'.exc = ""
      /\ last'.opened # <<>>)
       => last'.body = last'.opened]_vars

\* C19: a Mark* call raises the instance's serial_no by exactly one when one of
\* admin_state, disks_active, admin_state_source changes and otherwise leaves
\* the instance unchanged; repeated right away it is a no-op; MarkInstanceDown
\* and MarkInstanceUserDown never change disks_active.
C19_MarkInstance == []C19_MarkStatus /\ C19_RepeatedMarkIsNoOp

C19_Witness ==
  /\ last.op = "MarkInstanceUserDown" /\ last.exc = "" /\ last.opened # <<>>
  /\ last.opened[1].instances[last.arg[1]].disks_active
  /\ last.opened[1].instances[last.arg[1]].admin_state = "up"
  /\ last.body[1].instances[last.arg[1]].serial_no = 3

C19_WitnessUnchanged ==
  /\ last.op = "MarkInstanceOffline" /\ last.exc = "" /\ last.opened # <<>>
  /\ last.opened[1].instances[last.arg[1]].admin_state = "offline"
  /\ last.body = last.opened

C18_WitnessMark ==
  /\ last.op = "MarkInstanceUp" /\ last.exc = "" /\ last.opened # <<>>
  /\ last.body[1].instances[last.arg[1]].serial_no = 2
  /\ last.body[1].cluster.serial_no = last.opened[1].cluster.serial_no

\* the nodes a call turned into master candidates
Promoted(old, new) ==
  {n \in DOMAIN old.nodes : ~old.nodes[n].master_candidate /\ new.nodes[n].master_candidate}

\* a successful MaintainCandidatePool promotes only fit nodes outside the
\* exceptions, demotes none, returns the promoted nodes and fills the pool
C20_PoolFilled ==
  (last.op = "MaintainCandidatePool" /\ last.exc = "" /\ last.opened # <<>>) =>
    LET old == last.opened[1]
        new == last.body[1]
        exceptions == last.arg[1]
        before == UnlockedGetMasterCandidateStats(old, exceptions)
        after == UnlockedGetMasterCandidateStats(new, exceptions)
    IN /\ \A n \in Promoted(old, new) :
            /\ old.nodes[n].master_capable /\ ~old.nodes[n].offline /\ ~old.nodes[n].drained
            /\ ~Excepted(n, exceptions)
       /\ \A n \in DOMAIN old.nodes :
            /\ old.nodes[n].master_candidate => new.nodes[n].master_candidate
            /\ new.nodes[n] = IF n \in Promoted(old, new)
                              THEN [old.nodes[n] EXCEPT !.master_candidate = TRUE,
                                                        !.serial_no = @ + 1]
                              ELSE old.nodes[n]
       /\ ListElems(last.ret[1]) = Promoted(old, new)
       /\ Len(last.ret[1]) = Cardinality(Promoted(old, new))
       /\ after[1] >= after[2]
       /\ before[1] < before[2] => after[1] = after[2]
       /\ after[2] = before[2] /\ after[3] = before[3]

\* the same call made again right after a successful one returns an empty list
C20_SecondCallEmpty ==
  [][(/\ last.op = "MaintainCandidatePool" /\ last.exc = ""
      /\ last'.op = last.op /\ last'.arg = last.arg /\ last'.exc = "")
       => (last'.ret = << <<>> >> /\ last'.body = last'.opened)]_vars

\* C20: MaintainCandidatePool(exceptions) promotes only master-capable nodes
\* that are not offline, not drained, not excepted and no candidates yet; it
\* demotes no node and returns exactly the promoted nodes; afterwards the
\* candidate statistics have now >= should, and now = should when now < should
\* held before; a second call right after returns an empty list.
C20_MaintainCandidatePool == []C20_PoolFilled /\ C20_SecondCallEmpty

C20_Witness ==
  /\ last.op = "MaintainCandidatePool" /\ last.exc = "" /\ last.opened # <<>>
  /\ Len(last.ret[1]) = 1
  /\ last.arg[1] # <<>> /\ Cardinality(last.arg[1][1]) = 1
  /\ UnlockedGetMasterCandidateStats(last.opened[1], last.arg[1]) = <<0, 1, 2>>

C20_WitnessTwo ==
  /\ last.op = "MaintainCandidatePool" /\ last.exc = "" /\ last.opened # <<>>
  /\ Len(last.ret[1]) = 2
  /\ UnlockedGetMasterCandidateStats(last.body[1], last.arg[1]) = <<2, 2, 3>>

\* C21: the verifier never mutates the graph: after VerifyConfig the store's
\* graph is, field by field, the graph the call found.
C21_VerifierLeavesGraph ==
  (last.op = "VerifyConfig" /\ last.opened # <<>>) => last.body = last.opened

\* the verifier leaves everything but the cluster's instance policy alone
C21_OnlyClusterPolicyChanges ==
  (last.op = "VerifyConfig" /\ last.opened # <<>>) =>
    last.body[1] = [last.opened[1] EXCEPT !.cluster.ipolicy = last.body[1].cluster.ipolicy]

C21_WitnessConverted ==
  /\ last.op = "VerifyConfig" /\ last.opened # <<>>
  /\ last.opened[1].cluster.ipolicy["vcpu-ratio"] = <<"int", 4>>
  /\ last.body[1].cluster.ipolicy["vcpu-ratio"] = <<"float", 4>>

\* some instance's disk list names a disk that is not stored
HasDanglingDisk(g) ==
  \E i \in DOMAIN g.instances : \E k \in DOMAIN g.instances[i].disks :
    g.instances[i].disks[k] \notin DOMAIN g.disks

\* how often a disk UUID occurs in the disk lists of all instances
Attachments(g, d) ==
  Cardinality({x \in {<<i, k>> : i \in DOMAIN g.instances, k \in 1 .. MaxIdx} :
                 x[2] \in DOMAIN g.instances[x[1]].disks /\ g.instances[x[1]].disks[x[2]] = d})

\* the global invariants of the data model that the verifier looks at
InvariantsVerified(g) ==
  /\ \A n \in DOMAIN g.nodes : g.nodes[n].uuid = n
  /\ \A i \in DOMAIN g.instances : g.instances[i].uuid = i
  /\ \A d \in DOMAIN g.disks : g.disks[d].uuid = d
  /\ \A u \in DOMAIN g.nodegroups : g.nodegroups[u].uuid = u
  /\ \A i \in DOMAIN g.instances :
       /\ g.instances[i].primary_node \in DOMAIN g.nodes
       /\ \A k \in DOMAIN g.instances[i].disks :
            /\ g.instances[i].disks[k] \in DOMAIN g.disks
            /\ g.disks[g.instances[i].disks[k]].nodes \subseteq DOMAIN g.nodes
            /\ g.disks[g.instances[i].disks[k]].iv_name = IvName(k - 1)
       /\ g.instances[i].disk_template \in g.cluster.enabled_disk_templates
  /\ g.cluster.master_node \in DOMAIN g.nodes
  /\ g.nodes[g.cluster.master_node].master_candidate
  /\ \A x, y \in AllNics(g) :
       g.instances[x[1]].nics[x[2]].mac = g.instances[y[1]].nics[y[2]].mac => x = y
  /\ \A p \in PortKeys(g) : PortOwners(g, p) = 1 /\ p <= g.cluster.highest_used_port
  /\ \A u, v \in DOMAIN g.nodegroups : g.nodegroups[u].name = g.nodegroups[v].name => u = v
  /\ \A u \in DOMAIN g.nodegroups : g.nodegroups[u].name \notin UuidLikeNames
  /\ \A n \in DOMAIN g.nodes :
       Cardinality({f \in {"master_candidate", "drained", "offline"} : g.nodes[n][f]}) <= 1
  /\ VerifyIps(g) = {}

\* the global invariants of the data model
GlobalInvariants(g) ==
  /\ InvariantsVerified(g)
  /\ \A u \in DOMAIN g.nodegroups :
       /\ ListElems(g.nodegroups[u].members) = {n \in DOMAIN g.nodes : g.nodes[n].group = u}
       /\ Len(g.nodegroups[u].members) = Cardinality(ListElems(g.nodegroups[u].members))
  /\ \A i \in DOMAIN g.instances : \A k \in DOMAIN g.instances[i].disks :
       Attachments(g, g.instances[i].disks[k]) = 1
  /\ LET stats == UnlockedGetMasterCandidateStats(g, <<>>)
     IN stats[1] <= stats[2]

\* C22: VerifyConfig returns an empty list exactly for the graphs in which
\* every global invariant of the data model holds.
C22_EmptyIffInvariants ==
  (last.op = "VerifyConfig" /\ last.opened # <<>>) =>
    ((last.exc = "" /\ last.ret = <<{}>>) <=> GlobalInvariants(last.opened[1]))

\* one direction for the invariants the verifier looks at: an empty list
\* means they hold
C22_EmptyImpliesVerified ==
  (last.op = "VerifyConfig" /\ last.opened # <<>> /\ last.exc = "" /\ last.ret = <<{}>>)
    => InvariantsVerified(last.opened[1])

C22_WitnessDiskTwice ==
  /\ last.op = "VerifyConfig" /\ last.exc = "" /\ last.ret = <<{}>>
  /\ Attachments(last.opened[1], "d1") = 2

C22_WitnessEmpty ==
  /\ last.op = "VerifyConfig" /\ last.exc = "" /\ last.ret = <<{}>>
  /\ GlobalInvariants(last.opened[1])

\* C23: VerifyConfig on a configuration in which an instance's disk list names
\* a disk that is not stored returns normally, and the list it returns holds a
\* message about that dangling reference.
C23_DanglingDiskReported ==
  (last.op = "VerifyConfig" /\ HasDanglingDisk(lockd.data)) =>
    /\ last.exc = ""
    /\ \E msg \in last.ret[1] : msg[1] = "Instance has invalid disk"

C23_WitnessRaises ==
  /\ last.op = "VerifyConfig" /\ HasDanglingDisk(lockd.data)
  /\ last.exc = "AttributeError"

\* ------------------------------------------------------------------- C24

ReservationOps ==
  {"GenerateMAC", "ReserveMAC", "GenerateIp", "ReserveIp", "ReleaseIp", "ReserveLV",
   "GenerateDRBDSecret", "AllocateDRBDMinor", "ComputeDRBDMap"}

\* the step is a reservation operation on an offline store (ReleaseIp with a network)
OfflineReservationStep(ops) ==
  /\ last'.op \in ops
  /\ cfg[last'.c].offline
  /\ IF last'.op = "ReleaseIp" THEN last'.arg[1] # <<>> ELSE TRUE

\* the step fails with ProgrammerError, calls nothing and leaves the store and
\* the daemon as they were
RefusedStep ==
  /\ last'.exc = "ProgrammerError"
  /\ last'.calls = <<>>
  /\ cfg' = cfg /\ lockd' = lockd /\ cfgfile' = cfgfile

\* C24: on an offline store every reservation operation backed by LockD
\* (GenerateMAC, ReserveMAC, GenerateIp, ReserveIp, ReleaseIp with a network,
\* ReserveLV, GenerateDRBDSecret, AllocateDRBDMinor, ComputeDRBDMap) fails with
\* ProgrammerError, makes no LockD call and changes no store state.
C24_OfflineReservationsRefused ==
  [][OfflineReservationStep(ReservationOps) => RefusedStep]_vars

\* the operations that test the offline flag themselves are refused as claimed
C24_CheckedOpsRefused ==
  [][OfflineReservationStep({"GenerateIp", "ReserveIp", "ReleaseIp", "AllocateDRBDMinor"})
       => RefusedStep]_vars

\* offline, GenerateMAC reached the daemon through the client the store was given
C24_WitnessOfflineCall ==
  /\ last.op = "GenerateMAC" /\ cfg[last.c].offline
  /\ last.calls = <<"GenerateMAC">> /\ lockd.reserved # {}

\* offline and without a client, ReserveLV fails on the missing client
C24_WitnessAttributeError ==
  /\ last.op = "ReserveLV" /\ cfg[last.c].offline /\ last.exc = "AttributeError"

\* offline, ComputeDRBDMap loaded the configuration before its body refused
C24_WitnessLoaded ==
  /\ last.op = "ComputeDRBDMap" /\ cfg[last.c].offline /\ last.exc = "ProgrammerError"
  /\ last.cached = <<>> /\ cfg[last.c].config_data # <<>>

\* ------------------------------------------------------------- C25 C26

ExclusiveMethods ==
  MarkOps \cup {"AddNode", "RemoveNode", "AllocatePort", "AddInstanceDisk", "Update"}

SharedMethods == {"GetInstanceInfo", "GetNodeInfo"}

\* the step is a call of one of ops on a detached store
DetachedStep(ops) == cfg[last'.c].detached /\ last'.op \in ops

\* C25: on a DetachedConfig every write attempt (an exclusive-intent method)
\* fails with ProgrammerError before its body runs and leaves the snapshot as
\* it was, while shared-intent methods succeed.
C25_DetachedRejectsWrites ==
  [][/\ DetachedStep(ExclusiveMethods) =>
          /\ last'.exc = "ProgrammerError"
          /\ last'.body = <<>> /\ last'.calls = <<>>
          /\ cfg' = cfg /\ lockd' = lockd /\ cfgfile' = cfgfile
     /\ DetachedStep(SharedMethods) =>
          /\ last'.exc = ""
          /\ last'.body = cfg[last'.c].config_data /\ last'.calls = <<>>
          /\ cfg' = cfg /\ lockd' = lockd /\ cfgfile' = cfgfile]_vars

\* a write through the snapshot was refused
C25_Witness ==
  /\ last.c = "job2" /\ cfg["job2"].detached
  /\ last.op = "MarkInstanceDown" /\ last.exc = "ProgrammerError"

\* a read through the snapshot returned the instance
C25_WitnessRead ==
  /\ last.c = "job2" /\ cfg["job2"].detached
  /\ last.op = "GetInstanceInfo" /\ last.exc = "" /\ tgt["job2"] # <<>>

\* C26: the graph read through a DetachedConfig stays what it was when the
\* snapshot was taken, whatever is done afterwards on the originating store.
C26_SnapshotStable ==
  [][(cfg["job2"].detached /\ last'.op # "GetDetachedConfig")
       => cfg'["job2"].config_data = cfg["job2"].config_data]_vars

\* once the originating store holds another graph object, what is done on it
\* no longer shows through the snapshot
C26_StableOnceRebound ==
  [][(cfg["job2"].detached /\ cfg["job2"].origin = <<>> /\ last'.op # "GetDetachedConfig")
       => cfg'["job2"].config_data = cfg["job2"].config_data]_vars

\* the snapshot was taken in an exclusive session and a later change made in
\* that session shows through it
C26_WitnessSameSession ==
  /\ cfg["job2"].detached /\ cfg["job2"].origin = <<"job1">>
  /\ last.c = "job1" /\ last.op = "MarkInstanceUp" /\ last.depth > 0 /\ last.exc = ""
  /\ cfg["job2"].config_data = cfg["job1"].config_data
  /\ cfg["job2"].config_data[1].instances["i1"].admin_state = "up"

\* ------------------------------------------------------------- C27 C28

Called(calls, name) == \E k \in DOMAIN calls : calls[k] = name

\* the step opened the file of an offline store
OfflineOpenStep ==
  last'.c \in Ctx /\ cfg[last'.c].offline /\ Called(last'.calls, "ReadFile")

\* C27: an offline open of a file whose version differs from CONFIG_VERSION
\* raises ConfigVersionMismatch; the cached graph is as before the open, nothing
\* of the file is installed, nothing is written and no session stays held.
C27_VersionMismatch ==
  [][(OfflineOpenStep /\ cfgfile.data.version # CONFIG_VERSION) =>
       /\ last'.exc = "ConfigVersionMismatch"
       /\ last'.opened = <<>> /\ last'.body = <<>>
       /\ last'.calls = <<"ReadFile">>
       /\ cfg'[last'.c].config_data = cfg[last'.c].config_data
       /\ cfg'[last'.c].cfg_id = cfg[last'.c].cfg_id
       /\ cfgfile' = cfgfile
       /\ cfg'[last'.c].lock_count = cfg[last'.c].lock_count
       /\ Len(stack'[last'.c]) = Len(stack[last'.c])]_vars

\* a store that holds a graph loaded earlier failed to open the file, which by
\* now is of another version
C27_Witness ==
  /\ last.exc = "ConfigVersionMismatch" /\ last.op = "Enter"
  /\ cfg["job1"].config_data # <<>> /\ cfg["job1"].lock_count = 0
  /\ cfgfile.data.version # CONFIG_VERSION /\ cfgfile.id # cfg["job1"].cfg_id

\* the step is the commit of an outermost exclusive session of an offline store
OfflineCommitStep ==
  /\ last'.op = "Exit" /\ cfg[last'.c].offline
  /\ Called(last'.calls, "SafeWriteFile")

\* what the commit of C28 does, given the error a refused commit reports
CommitChecksIdentity(error) ==
  OfflineCommitStep =>
    IF cfgfile.id # cfg[last'.c].cfg_id
    THEN last'.exc = error /\ cfgfile' = cfgfile
    ELSE /\ last'.exc = ""
         /\ cfgfile'.data = ToDict(cfg'[last'.c].config_data[1])
         /\ cfgfile'.id # cfgfile.id
         /\ cfg'[last'.c].cfg_id = cfgfile'.id

\* C28: offline, a commit of an exclusive session fails with a lock error and
\* leaves the file alone when the file's identity changed since the session's
\* open loaded it; otherwise it replaces the file and records the new identity.
C28_CommitLockError == [][CommitChecksIdentity("LockError")]_vars

\* the same with the error the caller actually gets
C28_CommitConfigurationError == [][CommitChecksIdentity("ConfigurationError")]_vars

\* a commit was refused because the file had been replaced
C28_WitnessRefused ==
  /\ last.op = "Exit" /\ last.exc = "ConfigurationError"
  /\ last.calls = <<"SafeWriteFile">> /\ cfgfile.id # cfg["job1"].cfg_id

\* a second commit in a row succeeded
C28_WitnessTwoCommits ==
  /\ last.op = "Exit" /\ last.exc = "" /\ last.calls = <<"SafeWriteFile">>
  /\ cfgfile.id = 3 /\ cfg["job1"].cfg_id = 3 /\ cfgfile.data.serial_no = 3

\* ------------------------------------------------------------- C29 C30

\* the step is an AddInstance call with a MAC that an instance of the
\* configuration has
DuplicateMacStep == last'.op = "AddInstance" /\ last'.arg[2] \in AllMACs(lockd.data)

\* the call is refused and nothing happens
DuplicateMacRefused ==
  /\ last'.exc = "ConfigurationError"
  /\ ~Called(last'.calls, "AddInstance")
  /\ lockd' = lockd /\ cfg' = cfg

\* C29: in any sequence of AddInstance calls on one store, a call whose instance
\* has a NIC MAC that an instance of the configuration has (one added by the
\* call just before included) raises ConfigurationError, makes no LockD
\* AddInstance call and leaves the graph unchanged.
C29_DuplicateMacRefused == [][DuplicateMacStep => DuplicateMacRefused]_vars

\* the refusal is what happens while the store holds a graph
C29_RefusedWhenCached ==
  [][(DuplicateMacStep /\ cfg[last'.c].config_data # <<>>) => DuplicateMacRefused]_vars

\* a call right after a successful AddInstance with the same MAC failed on the
\* graph the first call had dropped
C29_WitnessSecondCall ==
  /\ last.op = "AddInstance" /\ last.exc = "AttributeError" /\ last.arg = <<"i3", "mac2">>
  /\ "i2" \in DOMAIN lockd.data.instances /\ "mac2" \in AllMACs(lockd.data)
  /\ "i3" \notin DOMAIN lockd.data.instances

\* the graph the RemoveInstance call of the step worked on, and instance i in it
RemovedFrom == last'.opened[1]

\* C30: RemoveInstance(i) of a stored instance removes the key i, puts the
\* network port of i into tcpudp_port_pool, releases the address of every NIC of
\* i that has a network and an ip in that network's pool, and raises
\* cluster.serial_no by one; for an unknown UUID it raises ConfigurationError
\* and changes nothing.
C30_RemoveInstance ==
  [][(last'.op = "RemoveInstance" /\ last'.opened # <<>> /\ "networks" \in DOMAIN RemovedFrom) =>
       LET g == RemovedFrom
           i == last'.arg[1]
           h == last'.body[1]
       IN IF i \in DOMAIN g.instances
          THEN /\ last'.exc = ""
               /\ DOMAIN h.instances = DOMAIN g.instances \ {i}
               /\ h.cluster.tcpudp_port_pool =
                    g.cluster.tcpudp_port_pool \cup
                      {g.instances[i].network_port[k] : k \in DOMAIN g.instances[i].network_port}
               /\ \A n \in DOMAIN g.networks :
                    h.networks[n].reservations =
                      g.networks[n].reservations \
                        {nic.ip[1] : nic \in {x \in {g.instances[i].nics[k] :
                                                      k \in DOMAIN g.instances[i].nics} :
                                                x.network = <<n>> /\ x.ip # <<>>}}
               /\ h.cluster.serial_no = g.cluster.serial_no + 1
               /\ lockd'.data = ToDict(h)
          ELSE /\ last'.exc = "ConfigurationError"
               /\ h = g /\ lockd' = [lockd EXCEPT !.lock = lockd'.lock]]_vars

\* an instance with two NICs on the network and a network port was removed
C30_Witness ==
  /\ last.op = "RemoveInstance" /\ last.exc = "" /\ last.arg = <<"i1">>
  /\ Len(last.opened[1].instances["i1"].nics) = 2
  /\ last.opened[1].instances["i1"].network_port # <<>>
  /\ lockd.data.networks["net1"].reservations = {"ip7"}
  /\ LastDrbdPort - 2 \in lockd.data.cluster.tcpudp_port_pool

\* an unknown instance was refused
C30_WitnessUnknown ==
  /\ last.op = "RemoveInstance" /\ last.exc = "ConfigurationError" /\ last.arg = <<"i3">>

\* ------------------------------------------------------ UUID reservations

\* execution contexts (job ids) that reserve, values utils.NewUUID may return
\* (one of them taken by a node), and the UUIDs and names callers pass
EcIds == {"ec1", "ec2"}

UuidPool == {"u1", "u2", "n1"}

GivenUuids == {<<>>, <<"u1">>, <<"g1">>}

GroupNames == {"default", "other"}

EcBounded ==
  /\ lockd.data.cluster.serial_no < MaxGroupSerial
  /\ cfgfile.data.cluster.serial_no < MaxGroupSerial

\* GenerateUniqueID(ec_id)
GenerateUniqueID(c, ec, drawn) ==
  /\ BodyRunning(c) /\ Bounded(c)
  /\ LET o == EnterCM(Mach(c), c, TRUE, FALSE)
     IN Method(c, TRUE, o, IF Runs(o) THEN GenerateUniqueIDOf(o, ec, drawn) ELSE o,
               [NoOp EXCEPT !.op = "GenerateUniqueID", !.arg = <<ec, drawn>>])

\* AddNode(node, ec_id) for a node without a UUID
AddNodeNoUUID(c, grp, ec, drawn) ==
  /\ BodyRunning(c) /\ EcBounded
  /\ LET o == EnterCM(Mach(c), c, FALSE, FALSE)
     IN Method(c, FALSE, o, UnlockedAddNodeNoUUID(o, grp, ec, drawn),
               [NoOp EXCEPT !.op = "AddNode", !.arg = <<ec, drawn, grp>>])

\* AddNodeGroup(group, ec_id, check_uuid=True)
AddNodeGroup(c, uuid, name, ec, drawn) ==
  /\ BodyRunning(c) /\ EcBounded
  /\ LET o == EnterCM(Mach(c), c, FALSE, FALSE)
     IN Method(c, FALSE, o, UnlockedAddNodeGroup(o, uuid, name, ec, drawn),
               [NoOp EXCEPT !.op = "AddNodeGroup", !.arg = <<ec, drawn, uuid, name>>])

\* AddNetwork(net, ec_id, check_uuid=True)
AddNetwork(c, uuid, ec, drawn) ==
  /\ BodyRunning(c) /\ EcBounded
  /\ LET o == EnterCM(Mach(c), c, FALSE, FALSE)
     IN Method(c, FALSE, o, UnlockedAddNetwork(o, uuid, ec, drawn),
               [NoOp EXCEPT !.op = "AddNetwork", !.arg = <<ec, drawn, uuid>>])

\* DropECReservations(ec_id); the record keeps what the call found reserved
\* for the context
DropECReservations(c, ec) ==
  /\ BodyRunning(c)
  /\ Plain(c, UnlockedDropECReservations(Mach(c), c, ec),
           [NoOp EXCEPT !.op = "DropECReservations",
                        !.arg = <<ec, {x \in cfg[c].temporary_ids : x[1] = ec}>>])

\* a configuration with named node groups and no network yet
EcDict ==
  [NormalDict EXCEPT
     !.nodegroups = [u \in GroupIds |->
                       [name |-> IF u = "g1" THEN "default" ELSE "spare", serial_no |-> 1]]]
    @@ [networks |-> EmptyMap]

\* one job, its store online or offline, reserving UUIDs under two contexts
InitEc ==
  \E offl \in BOOLEAN :
    InitStoresWith(EcDict, [c \in Ctx |-> NewStore(IF c = "job1" THEN offl ELSE FALSE)])

NextEc ==
  \E c \in {"job1"} :
    \/ \E ec \in EcIds, drawn \in UuidPool : GenerateUniqueID(c, ec, drawn)
    \/ \E drawn \in UuidPool : AddNodeNoUUID(c, "g1", "ec1", drawn)
    \/ \E uuid \in GivenUuids, name \in GroupNames, drawn \in UuidPool \ {"n1"} :
         AddNodeGroup(c, uuid, name, "ec2", drawn)
    \/ \E drawn \in UuidPool \ {"n1"} : AddNetwork(c, <<>>, "ec1", drawn)
    \/ \E ec \in EcIds : DropECReservations(c, ec)

SpecEc == InitEc /\ [][NextEc]_vars

\* C31: DropECReservations(e) leaves no name reserved for e in the store's
\* reservation manager, whatever was reserved under e before (by
\* GenerateUniqueID or by adding a node, group or network without a UUID), and
\* it changes neither the committed configuration nor the cached graph
C31_DropECReservations ==
  [][last'.op = "DropECReservations" =>
       /\ \A x \in cfg'[last'.c].temporary_ids : x[1] # last'.arg[1]
       /\ lockd'.data = lockd.data
       /\ cfgfile' = cfgfile
       /\ cfg'[last'.c].config_data = cfg[last'.c].config_data]_vars

\* a context that held the reservation of the UUID of a stored node was
\* dropped; the node stays stored and the other context keeps its reservation
C31_Witness ==
  /\ last.op = "DropECReservations" /\ last.arg[1] = "ec1"
  /\ \E x \in last.arg[2] : x[2] \in DOMAIN lockd.data.nodes
  /\ \E y \in cfg["job1"].temporary_ids : y[1] = "ec2"

\* ------------------------------------------------- Update inside sessions

\* one job with an online store that reads an instance, edits it and calls
\* Update, inside and outside sessions whose body may raise afterwards
InitMinors == InitStores(NormalDict, [c \in Ctx |-> FALSE])

NextMinors ==
  \E c \in {"job1"} :
    \/ \E shared \in BOOLEAN : Enter(c, shared, FALSE)
    \/ Exit(c)
    \/ BodyRaise(c)
    \/ GetInstanceInfo(c, "i1")
    \/ \E v \in AdminStates : EditTarget(c, v)
    \/ Update(c)

SpecMinors == InitMinors /\ [][NextMinors]_vars

\* the outermost session of the last step ended without committing: its body
\* raised, or closing it failed
FailedToCommit ==
  \/ last.op = "Exit" /\ last.depth = 1 /\ (last.excIn \/ last.exc # "")
  \/ last.op = "Update" /\ last.depth = 0 /\ last.exc # ""

\* C32: when the session containing Update(instance) fails to commit (its
\* body raised after the Update, or the write failed), Update has issued no
\* ReleaseDRBDMinors call in it
C32_ReleaseOnlyOnCommit ==
  FailedToCommit => ~acct[last.c].released

\* ------------------------------------------------- the poll loop of an open

\* the innermost frame of c is an __enter__ that is still in the poll loop of
\* _OpenConfig
Polling(c) ==
  IF stack[c] = <<>> THEN FALSE ELSE "polling" \in DOMAIN stack[c][Len(stack[c])]

\* LockD knows the graph the caller caches to be the current one
CacheCurrent(c) ==
  IF cfg[c].config_data = <<>> THEN FALSE ELSE ToDict(cfg[c].config_data[1]) = lockd.data

\* _OpenConfig(shared, force) of an outermost online open that needs
\* LockConfig, up to the poll loop: the counters and flags are set
StartOpen(c, shared, force) ==
  /\ stack[c] = <<>> /\ ~cfg[c].offline /\ cfg[c].lock_count = 0
  /\ ~shared \/ force
  /\ Commit(c, [Mach(c) EXCEPT !.s.lock_count = 1, !.s.lock_current_shared = shared,
                               !.s.lock_forced = IF force THEN TRUE ELSE @],
            <<[shared |-> shared, force |-> force, exc |-> FALSE, polling |-> TRUE]>>,
            [NoOp EXCEPT !.op = "StartOpen", !.shared = shared, !.force = force])

\* what the open does with the graph LockConfig returned, __enter__ cleaning
\* up when it fails
Granted(c, fr, m) ==
  Commit(c, m,
         IF m.exc = "" THEN <<[shared |-> fr.shared, force |-> fr.force, exc |-> FALSE]>>
         ELSE <<>>,
         [NoOp EXCEPT !.op = "Poll", !.shared = fr.shared, !.force = fr.force,
                      !.ret = <<"dict">>])

\* one round of the poll loop: LockConfig answers nil while others hold the
\* lock, and also when it grants a shared lock to a caller whose cache is
\* current; nil sends the loop to sleep and around again, a graph ends it
Poll(c) ==
  /\ Polling(c)
  /\ LET fr == stack[c][Len(stack[c])]
     IN IF ~OthersAllow(lockd, c, fr.shared)
        THEN /\ last' = [NoOp EXCEPT !.op = "Poll", !.c = c, !.depth = 1,
                                     !.shared = fr.shared, !.force = fr.force]
             /\ UNCHANGED <<cfg, lockd, cfgfile, stack, tgt, acct>>
        ELSE IF fr.shared /\ CacheCurrent(c)
        THEN /\ lockd' = [lockd EXCEPT !.lock[c] = "shared"]
             /\ acct' = [acct EXCEPT ![c] = Account(@, <<"LockConfig">>, 1)]
             /\ last' = [NoOp EXCEPT !.op = "Poll", !.c = c, !.depth = 1,
                                     !.shared = fr.shared, !.force = fr.force,
                                     !.calls = <<"LockConfig">>]
             /\ UNCHANGED <<cfg, cfgfile, stack, tgt>>
        ELSE Granted(c, fr,
                     OpenFailed(UpgradeConfig(
                                  InstallConfigData(LockConfig(Mach(c), c, fr.shared),
                                                    FromDict(lockd.data)), c, FALSE), c))

\* job1 opens outermost sessions through the poll loop, with and without a
\* cached graph; job2 takes exclusive sessions and changes the configuration
InitPoll == InitStores(StatusDict, [c \in Ctx |-> FALSE])

NextPoll ==
  \/ \E shared \in BOOLEAN, force \in BOOLEAN : StartOpen("job1", shared, force)
  \/ Poll("job1")
  \/ ~Polling("job1") /\ Exit("job1")
  \/ ~Polling("job1") /\ GetInstanceInfo("job1", "i1")
  \/ OutDate("job1")
  \/ Enter("job2", FALSE, FALSE)
  \/ Exit("job2")
  \/ MarkInstanceDown("job2", "i1")
  \/ MarkInstanceUp("job2", "i1")

SpecPoll == InitPoll /\ [][NextPoll]_vars

\* the poll loop keeps going round, and job2 leaves the sessions it entered
SpecPollFair ==
  SpecPoll /\ WF_vars(Poll("job1")) /\ WF_vars(Exit("job2"))

\* C33: an outermost online open that goes through LockConfig returns once
\* LockD has granted the lock, also when the grant is a shared lock announced
\* by nil because the cached graph is current
C33_OpenReturns ==
  (Polling("job1") /\ lockd.lock["job1"] # "none") ~> ~Polling("job1")

\* ---------------------------------------------------------- reentrancy

\* the step opened a session inside a session the store counts correctly
NestedOpen ==
  /\ last'.op = "Enter" /\ last'.depth >= 1 /\ last'.exc = ""
  /\ cfg[last'.c].lock_count = Len(stack[last'.c])

\* the step closed a session that is not the outermost one
NestedClose ==
  /\ last'.op = "Exit" /\ last'.depth >= 2
  /\ cfg[last'.c].lock_count = Len(stack[last'.c])

\* C34: a permitted nested open only increments lock_count (no call to LockD,
\* no file read, the cached graph kept) and a nested close only decrements
\* it (no write, no unlock), whatever the intent, the force flag or the
\* outcome of the nested session
C34_ReentrancyNoSideEffects ==
  [][/\ NestedOpen =>
          /\ last'.calls = <<>>
          /\ cfg' = [cfg EXCEPT ![last'.c].lock_count = @ + 1]
          /\ lockd' = lockd /\ cfgfile' = cfgfile
     /\ NestedClose =>
          /\ last'.calls = <<>>
          /\ cfg' = [cfg EXCEPT ![last'.c].lock_count = @ - 1]
          /\ lockd' = lockd /\ cfgfile' = cfgfile]_vars

\* nested opens without force, and nested closes, have no side effect
C34_UnforcedReentrancy ==
  [][/\ (NestedOpen /\ ~last'.force) =>
          /\ last'.calls = <<>>
          /\ cfg' = [cfg EXCEPT ![last'.c].lock_count = @ + 1]
          /\ lockd' = lockd /\ cfgfile' = cfgfile
     /\ NestedClose =>
          /\ last'.calls = <<>>
          /\ cfg' = [cfg EXCEPT ![last'.c].lock_count = @ - 1]
          /\ lockd' = lockd /\ cfgfile' = cfgfile]_vars

\* ------------------------------------------- nodes and groups, all the calls

\* a configuration with three named node groups
NamedGroupDict ==
  [NormalDict EXCEPT
     !.nodegroups = [u \in ManyGroupIds |-> [name |-> <<"name", u>>, serial_no |-> 1]]]

\* one job adding and removing nodes and node groups and regrouping nodes,
\* each call on its own or several of them in one exclusive session; a removed
\* group may come back under its UUID or under a generated one
InitGroupOps == InitStores(NamedGroupDict, [c \in Ctx |-> FALSE])

\* the calls stop once the cluster serial number, committed or cached, reached
\* the cap
GroupOpsBounded(c) ==
  /\ GroupBounded
  /\ IF cfg[c].config_data = <<>> THEN TRUE
     ELSE cfg[c].config_data[1].cluster.serial_no < MaxGroupSerial

\* the modification lists of the job: a node to its own group, to another
\* group, to an unknown group, and a valid entry before one of these
GroupOpsMods ==
  {<<<<"n1", "g1">>>>, <<<<"n1", "g2">>>>, <<<<"n1", "g9">>>>,
   <<<<"n2", "g2">>, <<"n1", "g1">>>>, <<<<"n2", "g2">>, <<"n3", "g1">>>>}

NextGroupOps ==
  \E c \in {"job1"} :
    \/ stack[c] = <<>> /\ Enter(c, FALSE, FALSE)
    \/ Exit(c)
    \/ GroupOpsBounded(c) /\
         \/ \E grp \in GroupIds : AddNode(c, "n2", grp)
         \/ \E n \in GroupNodeIds : RemoveNode(c, n)
         \/ \E mods \in GroupOpsMods : AssignGroupNodes(c, mods)
         \/ \E grp \in GroupIds : RemoveNodeGroup(c, grp)
         \/ \E uuid \in {<<>>, <<"g1">>} : AddNodeGroup(c, uuid, "other", "ec1", "u1")

SpecGroupOps == InitGroupOps /\ [][NextGroupOps]_vars

\* some entry of the list names an unknown node, a node whose current group
\* is not stored, or an unknown target group
BadEntry(g, mods) ==
  \E k \in DOMAIN mods :
    \/ mods[k][1] \notin DOMAIN g.nodes
    \/ mods[k][2] \notin DOMAIN g.nodegroups
    \/ IF mods[k][1] \in DOMAIN g.nodes
       THEN g.nodes[mods[k][1]].group \notin DOMAIN g.nodegroups ELSE FALSE

\* every node's group is stored and lists the node, and no other group does
GroupsConsistent(g) ==
  \A n \in DOMAIN g.nodes :
    /\ g.nodes[n].group \in DOMAIN g.nodegroups
    /\ \A u \in DOMAIN g.nodegroups :
         (n \in ListElems(g.nodegroups[u].members)) = (g.nodes[n].group = u)

\* C35: AssignGroupNodes is all-or-nothing: a list with an entry that names
\* an unknown node, a node whose current group is not stored, or an unknown
\* target group raises ConfigurationError and changes nothing, the valid
\* entries before the bad one included
C35_AssignGroupNodesAllOrNothing ==
  [][(last'.op = "AssignGroupNodes" /\ last'.opened # <<>>
        /\ BadEntry(last'.opened[1], last'.arg)) =>
       /\ last'.exc = "ConfigurationError"
       /\ last'.body = last'.opened
       /\ lockd'.data = lockd.data]_vars

\* on a graph whose nodes and groups agree, a list with a bad entry is refused
\* as a whole
C35_AllOrNothingWhenConsistent ==
  [][(last'.op = "AssignGroupNodes" /\ last'.opened # <<>>
        /\ GroupsConsistent(last'.opened[1])
        /\ BadEntry(last'.opened[1], last'.arg)) =>
       /\ last'.exc = "ConfigurationError"
       /\ last'.body = last'.opened
       /\ lockd'.data = lockd.data]_vars

\* a list with a bad entry was accepted: the node's group had been removed and
\* the entry assigns the node to that very group
C35_AcceptedBadEntry ==
  /\ last.op = "AssignGroupNodes" /\ last.opened # <<>> /\ last.exc = ""
  /\ BadEntry(last.opened[1], last.arg)

\* C36: after any sequence of opens and closes through the session manager,
\* refused opens included, lock_count is the number of sessions currently
\* entered: never negative, and 0 when no session is open
C36_LockCountIsDepth ==
  \A c \in Ctx : cfg[c].lock_count = Len(stack[c])

\* lock_count is right as long as no nested exclusive request was refused
\* in the current outermost session
C36_RightUntilRefusal ==
  [][(\A c \in Ctx : cfg[c].lock_count = Len(stack[c]))
       => \/ \A c \in Ctx : cfg'[c].lock_count = Len(stack'[c])
          \/ last'.exc = "ConfigurationError" /\ last'.depth >= 1]_vars

\* every UnlockConfig among the calls is issued while a grant is held: held
\* tells whether one is held before calls[k]
RECURSIVE UnlocksWhileHeld(_, _, _)
UnlocksWhileHeld(held, calls, k) ==
  IF k > Len(calls) THEN TRUE
  ELSE IF calls[k] = "LockConfig" THEN UnlocksWhileHeld(TRUE, calls, k + 1)
  ELSE IF calls[k] = "UnlockConfig" THEN held /\ UnlocksWhileHeld(FALSE, calls, k + 1)
  ELSE IF calls[k] = "WriteConfigAndUnlock" THEN UnlocksWhileHeld(FALSE, calls, k + 1)
  ELSE UnlocksWhileHeld(held, calls, k + 1)

\* the step released a lock that an earlier step had obtained
ReleasedEarlierGrant ==
  /\ last'.calls # <<>>
  /\ acct[last'.c].held
  /\ \E k \in DOMAIN last'.calls :
       /\ last'.calls[k] \in {"UnlockConfig", "WriteConfigAndUnlock"}
       /\ \A j \in 1..(k - 1) : last'.calls[j] # "LockConfig"

\* C37: the store calls UnlockConfig only while it holds a lock it obtained
\* through LockConfig and has not released, and it releases that lock only
\* when the outermost session closes
C37_UnlockOnlyHeldLock ==
  [][/\ last'.calls # <<>> =>
          UnlocksWhileHeld(acct[last'.c].held, last'.calls, 1)
     /\ ReleasedEarlierGrant => stack'[last'.c] = <<>>]_vars

\* ------------------------------------------------ ports, several contexts

\* a port of the committed configuration d that AllocatePort may hand out: it
\* is in the pool, or above the highest port used
PortFree(d, p) ==
  p \in d.cluster.tcpudp_port_pool \/ p > d.cluster.highest_used_port

\* two jobs, each with its own online store, allocate ports, hand ports in
\* use back with AddTcpUdpPort, and remove the instance that holds a port
InitPortsConc == InitStores(PortDict, [c \in Ctx |-> FALSE])

NextPortsConc ==
  \E c \in Ctx :
    \/ \E popped \in {0} \cup PortInputs : AllocatePort(c, popped)
    \/ \E p \in PortInputs : ~PortFree(lockd.data, p) /\ AddTcpUdpPort(c, <<"int", p>>)
    \/ RemoveInstance(c, "i1")

SpecPortsConc == InitPortsConc /\ [][NextPortsConc]_vars

\* C38: AllocatePort never returns a port that is in use: the port it returns
\* was free and is in use afterwards, and a port in use becomes free again
\* only by being returned to the pool (AddTcpUdpPort, RemoveInstance), so no
\* two calls of any contexts return the same port without such a return in
\* between
C38_NoPortTwice ==
  [][/\ (last'.op = "AllocatePort" /\ last'.ret # <<>>) =>
          /\ PortFree(lockd.data, last'.ret[1])
          /\ ~PortFree(lockd'.data, last'.ret[1])
     /\ \A p \in PortInputs :
          (~PortFree(lockd.data, p) /\ PortFree(lockd'.data, p)) =>
             last'.op \in {"AddTcpUdpPort", "RemoveInstance"}]_vars

\* job2 was handed the port after the one job1 got, while job1's store still
\* caches the graph of its own allocation
C38_Witness ==
  /\ last.op = "AllocatePort" /\ last.c = "job2" /\ last.ret = <<LastDrbdPort - 1>>
  /\ cfg["job1"].config_data # <<>>
  /\ cfg["job1"].config_data[1].cluster.highest_used_port = LastDrbdPort - 2
  /\ lockd.data.cluster.tcpudp_port_pool = {}

\* ------------------------------------------------------ renaming instances

\* a configuration with two instances of different names
RenameDict ==
  [NormalDict EXCEPT
     !.instances = [i \in InstIds |->
                      [disks |-> <<>>, admin_state |-> "down", serial_no |-> 1,
                       name |-> IF i = "i1" THEN "web" ELSE "db"]]]

RenameNames == {"web", "db", "mail"}

\* two jobs, each with its own online store, rename the instances and read
\* them
InitRename == InitStores(RenameDict, [c \in Ctx |-> FALSE])

NextRename ==
  \E c \in Ctx :
    \/ \E i \in InstIds \cup {"i3"}, name \in RenameNames :
         lockd.data.cluster.serial_no < MaxInstSerial /\ RenameInstance(c, i, name)
    \/ \E i \in InstIds : GetInstanceInfo(c, i)

SpecRename == InitRename /\ [][NextRename]_vars

\* C40: after any sequence of RenameInstance calls from a graph in which no
\* two instances share a name, no two stored instances have the same name
C40_InstanceNamesUnique ==
  \A i, j \in DOMAIN lockd.data.instances :
    lockd.data.instances[i].name = lockd.data.instances[j].name => i = j

\* C39: after any sequence of AddNode, RemoveNode, AddNodeGroup,
\* RemoveNodeGroup and AssignGroupNodes calls from a consistent graph, the
\* group of every stored node is the UUID of a stored node group
C39_NodeGroupsStored ==
  \A n \in DOMAIN lockd.data.nodes :
    lockd.data.nodes[n].group \in DOMAIN lockd.data.nodegroups

====
